---- MODULE Spec2Model ----
(***************************************************************************)
(* A model of go-gormrepo: the fluent GenericRepository[T] of              *)
(* gormrepo/gorm_repository.go and the reflection-driven projection        *)
(* helpers (hasStructFields .. mapSliceToSlice).                           *)
(*                                                                         *)
(* Go strings that the code parses (field names, struct tags, column       *)
(* names) are sequences of one-character strings; opaque data values       *)
(* (a user's name) are TLA+ strings.  A Go pointer is <<>> (nil) or <<v>>. *)
(* A Go slice is [isnil, elems].  A struct value is the sequence of its    *)
(* field values in declaration order.  reflect.Type is a type name.        *)
(***************************************************************************)
EXTENDS Integers, Sequences, FiniteSets, TLC

VARIABLES repos, table, last, dto, fld, calls

vars == <<repos, table, last, dto, fld, calls>>

-----------------------------------------------------------------------------
(* Strings as the code handles them: strings.Split, HasPrefix, TrimPrefix, *)
(* Join, ToLower.                                                          *)

UpperChars == <<"A","B","C","D","E","F","G","H","I","J","K","L","M",
                "N","O","P","Q","R","S","T","U","V","W","X","Y","Z">>
LowerChars == <<"a","b","c","d","e","f","g","h","i","j","k","l","m",
                "n","o","p","q","r","s","t","u","v","w","x","y","z">>

IsUpperChar(c) == \E i \in 1..26 : UpperChars[i] = c

ToLowerChar(c) ==
    IF IsUpperChar(c)
    THEN LowerChars[CHOOSE i \in 1..26 : UpperChars[i] = c]
    ELSE c

ToLower(s) == [i \in 1..Len(s) |-> ToLowerChar(s[i])]

HasPrefix(s, p) == Len(s) >= Len(p) /\ SubSeq(s, 1, Len(p)) = p

TrimPrefix(s, p) == IF HasPrefix(s, p) THEN SubSeq(s, Len(p) + 1, Len(s)) ELSE s

RECURSIVE SplitFrom(_, _, _, _)
SplitFrom(s, sep, i, cur) ==
    IF i > Len(s) THEN <<cur>>
    ELSE IF s[i] = sep THEN <<cur>> \o SplitFrom(s, sep, i + 1, <<>>)
    ELSE SplitFrom(s, sep, i + 1, Append(cur, s[i]))

\* strings.Split(s, sep) for a one-character separator
Split(s, sep) == SplitFrom(s, sep, 1, <<>>)

RECURSIVE Join(_, _)
Join(parts, sep) ==
    IF Len(parts) = 0 THEN <<>>
    ELSE IF Len(parts) = 1 THEN parts[1]
    ELSE parts[1] \o sep \o Join(Tail(parts), sep)

ColumnPrefix == <<"c","o","l","u","m","n",":">>
CommaSpace == <<",", " ">>
DashTag == <<"-">>

-----------------------------------------------------------------------------
(* The types the model draws its inputs from: one entity type (User) with  *)
(* a to-one and a to-many association, and DTO types covering every field  *)
(* classification the helpers distinguish.                                 *)

NoTag == [projection |-> <<>>, gorm |-> <<>>, json |-> <<>>, preload |-> <<>>]

Fld(name, type, tag) == [Name |-> name, Type |-> type, Tag |-> tag]

\* reflect.StructField.IsExported: the name starts with an upper-case letter
IsExported(f) == IsUpperChar(f.Name[1])

N_ID == <<"I","D">>
N_Name == <<"N","a","m","e">>
N_Email == <<"E","m","a","i","l">>
N_Profile == <<"P","r","o","f","i","l","e">>
N_Orders == <<"O","r","d","e","r","s">>
N_secret == <<"s","e","c","r","e","t">>
N_Secret == <<"S","e","c","r","e","t">>
N_profile == <<"p","r","o","f","i","l","e">>
N_Bio == <<"B","i","o">>
N_Total == <<"T","o","t","a","l">>
N_FullName == <<"F","u","l","l","N","a","m","e">>
N_Mail == <<"M","a","i","l">>
N_Nick == <<"N","i","c","k">>
N_UserID == <<"U","s","e","r","I","D">>
N_Tags == <<"T","a","g","s">>

T_name == <<"n","a","m","e">>
T_colEmail == <<"c","o","l","u","m","n",":","e","m","a","i","l">>
T_pkColEmail == <<"p","r","i","m","a","r","y","K","e","y",";">> \o T_colEmail
T_pk == <<"p","r","i","m","a","r","y","K","e","y">>
T_jsonMail == <<"m","a","i","l">>
T_jsonNick == <<"n","i","c","k",",","o","m","i","t","e","m","p","t","y">>
T_jsonOmit == <<",","o","m","i","t","e","m","p","t","y">>

UserFields == <<
    Fld(N_ID, "int", [NoTag EXCEPT !.gorm = T_pk]),
    Fld(N_Name, "string", NoTag),
    Fld(N_Email, "string", [NoTag EXCEPT !.gorm = T_colEmail]),
    Fld(N_Profile, "*Profile", NoTag),
    Fld(N_Orders, "[]Order", NoTag),
    Fld(N_secret, "string", NoTag) >>

ProfileFields == << Fld(N_Bio, "string", NoTag) >>
ProfileDTOFields == << Fld(N_Bio, "string", [NoTag EXCEPT !.json = <<"b","i","o">>]),
                       Fld(N_Nick, "string", NoTag) >>
OrderFields == << Fld(N_Total, "int", NoTag) >>
OrderDTOFields == << Fld(N_Total, "int", NoTag), Fld(N_Name, "string", NoTag) >>

UserBasicFields == << Fld(N_Name, "string", NoTag), Fld(N_Email, "string", NoTag) >>
UserTaggedFields == <<
    Fld(N_FullName, "string", [NoTag EXCEPT !.projection = T_name]),
    Fld(N_Mail, "string", [NoTag EXCEPT !.gorm = T_pkColEmail, !.json = T_jsonMail]),
    Fld(N_Nick, "string", [NoTag EXCEPT !.json = T_jsonNick]),
    Fld(N_UserID, "int", NoTag) >>
UserProfileViewFields == << Fld(N_Name, "string", NoTag), Fld(N_Profile, "*Profile", NoTag) >>
UserDetailFields == <<
    Fld(N_ID, "int", NoTag),
    Fld(N_Profile, "ProfileDTO", [NoTag EXCEPT !.preload = N_Profile]),
    Fld(N_Orders, "[]OrderDTO", NoTag) >>
UserOrdersFields == << Fld(N_Name, "string", NoTag), Fld(N_Orders, "[]Order", NoTag) >>
UserHiddenFields == << Fld(N_Name, "string", NoTag), Fld(N_secret, "string", NoTag) >>
UserShadowFields == << Fld(N_Name, "string", NoTag), Fld(N_profile, "*Profile", NoTag) >>
UserSecretFields == << Fld(N_Name, "string", NoTag), Fld(N_Secret, "string", NoTag) >>
UserNullableFields == << Fld(N_Name, "string", NoTag), Fld(N_Email, "*string", NoTag) >>
UserMismatchFields == <<
    Fld(N_Name, "string", NoTag),
    Fld(N_Profile, "string", NoTag),
    Fld(N_Nick, "int", NoTag) >>
OrdersOnlyFields == << Fld(N_Orders, "[]Order", NoTag), Fld(N_Tags, "map[string]string", NoTag) >>

StructTypes == {"User", "Profile", "ProfileDTO", "Order", "OrderDTO", "UserBasic", "UserTagged",
                "UserProfileView", "UserDetail", "UserOrders", "UserHidden", "UserShadow",
                "OrdersOnly", "UserSecret", "UserNullable", "UserMismatch"}

DTOTypes == {"UserBasic", "UserTagged", "UserProfileView", "UserDetail", "UserOrders",
             "UserHidden", "UserShadow", "OrdersOnly", "UserSecret", "UserNullable",
             "UserMismatch"}

\* reflect.Type.Kind
Kind(t) ==
    CASE t \in StructTypes -> "struct"
      [] t \in {"*Profile", "*string"} -> "ptr"
      [] t \in {"[]Order", "[]OrderDTO"} -> "slice"
      [] t = "map[string]string" -> "map"
      [] OTHER -> t

\* reflect.Type.Elem of a pointer or slice type
Elem(t) ==
    CASE t = "*Profile" -> "Profile"
      [] t = "*string" -> "string"
      [] t = "[]Order" -> "Order"
      [] t = "[]OrderDTO" -> "OrderDTO"
      [] OTHER -> t

\* reflect.Type.NumField / Field(i) of a struct type
StructFields(t) ==
    CASE t = "User" -> UserFields
      [] t = "Profile" -> ProfileFields
      [] t = "ProfileDTO" -> ProfileDTOFields
      [] t = "Order" -> OrderFields
      [] t = "OrderDTO" -> OrderDTOFields
      [] t = "UserBasic" -> UserBasicFields
      [] t = "UserTagged" -> UserTaggedFields
      [] t = "UserProfileView" -> UserProfileViewFields
      [] t = "UserDetail" -> UserDetailFields
      [] t = "UserOrders" -> UserOrdersFields
      [] t = "UserHidden" -> UserHiddenFields
      [] t = "UserShadow" -> UserShadowFields
      [] t = "OrdersOnly" -> OrdersOnlyFields
      [] t = "UserSecret" -> UserSecretFields
      [] t = "UserNullable" -> UserNullableFields
      [] t = "UserMismatch" -> UserMismatchFields
      [] OTHER -> <<>>

\* the kinds isBasicType lists
BasicKinds == {"string", "int", "int8", "int16", "int32", "int64", "uint", "uint8", "uint16",
               "uint32", "uint64", "float32", "float64", "bool"}

isBasicType(t) == Kind(t) \in BasicKinds

-----------------------------------------------------------------------------
(* Projection shape: which DTO fields become preloads, which columns.      *)

\* the loop body's test of hasStructFields and extractPreloadsFromDTO:
\* a pointer field is looked at through its pointee
DerefType(t) == IF Kind(t) = "ptr" THEN Elem(t) ELSE t

IsAssociationField(f) ==
    Kind(DerefType(f.Type)) = "struct" /\ ~isBasicType(DerefType(f.Type))

hasStructFields(d) ==
    \E i \in 1..Len(StructFields(d)) : IsAssociationField(StructFields(d)[i])

PreloadName(f) == IF f.Tag.preload = <<>> THEN f.Name ELSE f.Tag.preload

RECURSIVE PreloadsFrom(_, _)
PreloadsFrom(fields, i) ==
    IF i > Len(fields) THEN <<>>
    ELSE (IF IsAssociationField(fields[i]) THEN <<PreloadName(fields[i])>> ELSE <<>>)
         \o PreloadsFrom(fields, i + 1)

extractPreloadsFromDTO(d) == PreloadsFrom(StructFields(d), 1)

RECURSIVE SnakeFrom(_, _)
SnakeFrom(s, i) ==
    IF i > Len(s) THEN <<>>
    ELSE (IF i > 1 /\ IsUpperChar(s[i]) THEN <<"_", s[i]>> ELSE <<s[i]>>)
         \o SnakeFrom(s, i + 1)

RECURSIVE GroupedFrom(_, _)
GroupedFrom(s, i) ==
    IF i > Len(s) THEN <<>>
    ELSE (IF i > 1 /\ IsUpperChar(s[i]) /\ ~IsUpperChar(s[i - 1]) THEN <<"_", s[i]>> ELSE <<s[i]>>)
         \o GroupedFrom(s, i + 1)

\* a variant that puts an underscore only where an upper-case letter
\* follows a letter that is not upper-case
toSnakeCaseGrouped(s) == ToLower(GroupedFrom(s, 1))

toSnakeCase(s) == ToLower(SnakeFrom(s, 1))

\* the first ";"-separated part of a gorm tag that starts with "column:",
\* as the loop over strings.Split(gormTag, ";") finds it; 0 when none does
ColumnPart(parts) ==
    IF \E i \in 1..Len(parts) : HasPrefix(parts[i], ColumnPrefix)
    THEN CHOOSE i \in 1..Len(parts) :
            /\ HasPrefix(parts[i], ColumnPrefix)
            /\ \A j \in 1..(i - 1) : ~HasPrefix(parts[j], ColumnPrefix)
    ELSE 0

getColumnName(f) ==
    LET parts == Split(f.Tag.gorm, ";")
        k == ColumnPart(parts)
    IN IF f.Tag.gorm # <<>> /\ k # 0
       THEN TrimPrefix(parts[k], ColumnPrefix)
       ELSE toSnakeCase(f.Name)

\* a variant that consults the json tag before the gorm tag
getColumnNameJsonFirst(f) ==
    LET parts == Split(f.Tag.gorm, ";")
        k == ColumnPart(parts)
    IN IF f.Tag.projection # <<>> THEN f.Tag.projection
       ELSE IF f.Tag.json # <<>> /\ f.Tag.json # DashTag THEN Split(f.Tag.json, ",")[1]
       ELSE IF f.Tag.gorm # <<>> /\ k # 0 THEN TrimPrefix(parts[k], ColumnPrefix)
       ELSE toSnakeCase(f.Name)

getColumnNameFromDTO(f) ==
    LET parts == Split(f.Tag.gorm, ";")
        k == ColumnPart(parts)
    IN IF f.Tag.projection # <<>> THEN f.Tag.projection
       ELSE IF f.Tag.gorm # <<>> /\ k # 0 THEN TrimPrefix(parts[k], ColumnPrefix)
       ELSE IF f.Tag.json # <<>> /\ f.Tag.json # DashTag THEN Split(f.Tag.json, ",")[1]
       ELSE toSnakeCase(f.Name)

RECURSIVE ColumnsFrom(_, _)
ColumnsFrom(fields, i) ==
    IF i > Len(fields) THEN <<>>
    ELSE (IF IsExported(fields[i]) /\ isBasicType(fields[i].Type)
          THEN <<getColumnNameFromDTO(fields[i])>> ELSE <<>>)
         \o ColumnsFrom(fields, i + 1)

createProjectionFromDTO(d) == ColumnsFrom(StructFields(d), 1)

-----------------------------------------------------------------------------
(* Values, and reflect's ConvertibleTo / Convert on the types above.       *)

NilPtr == <<>>
PtrTo(v) == <<v>>
NilSlice == [isnil |-> TRUE, elems |-> <<>>]
SliceOf(elems) == [isnil |-> FALSE, elems |-> elems]

RECURSIVE Zero(_)
\* reflect.New(t).Elem(): the zero value of a type
Zero(t) ==
    CASE Kind(t) = "struct" -> [i \in 1..Len(StructFields(t)) |-> Zero(StructFields(t)[i].Type)]
      [] Kind(t) = "ptr" -> NilPtr
      [] Kind(t) \in {"slice", "map"} -> NilSlice
      [] Kind(t) = "string" -> ""
      [] Kind(t) = "bool" -> FALSE
      [] OTHER -> 0

IntegerKinds == {"int", "int8", "int16", "int32", "int64", "uint", "uint8", "uint16",
                 "uint32", "uint64"}
NumericKinds == IntegerKinds \cup {"float32", "float64"}

\* two struct types with identical underlying types: the same field names
\* and field types in the same order, tags ignored
SameUnderlying(s, d) ==
    /\ Kind(s) = Kind(d)
    /\ IF Kind(s) = "struct"
       THEN /\ Len(StructFields(s)) = Len(StructFields(d))
            /\ \A i \in 1..Len(StructFields(s)) :
                  /\ StructFields(s)[i].Name = StructFields(d)[i].Name
                  /\ StructFields(s)[i].Type = StructFields(d)[i].Type
       ELSE s = d

ConvertibleTo(s, d) ==
    \/ s = d
    \/ Kind(s) \in NumericKinds /\ Kind(d) \in NumericKinds
    \/ Kind(s) \in IntegerKinds /\ Kind(d) = "string"
    \/ Kind(s) = "struct" /\ Kind(d) = "struct" /\ SameUnderlying(s, d)
    \/ Kind(s) = "ptr" /\ Kind(d) = "ptr" /\ SameUnderlying(Elem(s), Elem(d))

\* string(rune(n)) for the small integers of the model
RuneStrings == <<"\\x01", "\\x02", "\\x03", "\\x04", "\\x05", "\\x06", "\\x07", "\\x08">>
RuneString(n) == IF n \in 1..Len(RuneStrings) THEN RuneStrings[n] ELSE "\\x00"

Convert(v, s, d) ==
    IF Kind(s) \in IntegerKinds /\ Kind(d) = "string" THEN RuneString(v) ELSE v

\* reflect.Value.FieldByName on a struct without embedded fields:
\* the index of the field of that name, 0 (an invalid Value) when none
FieldByName(t, name) ==
    IF \E j \in 1..Len(StructFields(t)) : StructFields(t)[j].Name = name
    THEN CHOOSE j \in 1..Len(StructFields(t)) : StructFields(t)[j].Name = name
    ELSE 0

\* getColumnName of every field of every struct type, in field order
ColumnNames ==
    [t \in StructTypes |->
        [j \in 1..Len(StructFields(t)) |-> getColumnName(StructFields(t)[j])]]

\* the scan "for j ... if getColumnName(field j) == columnName ... break"
FieldByColumn(t, col) ==
    IF \E j \in 1..Len(StructFields(t)) : ColumnNames[t][j] = col
    THEN CHOOSE j \in 1..Len(StructFields(t)) :
            /\ ColumnNames[t][j] = col
            /\ \A k \in 1..(j - 1) : ColumnNames[t][k] # col
    ELSE 0

\* the source field that field i of struct type dt is filled from: by
\* exact name first, else by column name; 0 when there is none
SourceField(st, dt, i) ==
    IF FieldByName(st, StructFields(dt)[i].Name) # 0
    THEN FieldByName(st, StructFields(dt)[i].Name)
    ELSE FieldByColumn(st, ColumnNames[dt][i])

\* an error is the chain of its messages, outermost first, each with the
\* slice index and the field name its format string prints, if any; nil is
\* the empty chain
NoIndex == 0 - 1
Frame(msg) == [msg |-> msg, index |-> NoIndex, field |-> <<>>]
IndexFrame(msg, i) == [msg |-> msg, index |-> i, field |-> <<>>]
FieldFrame(msg, name) == [msg |-> msg, index |-> NoIndex, field |-> name]
NoErr == <<>>
\* reflect.Value.Set panics on a value obtained through an unexported field
ErrPanicUnexported == <<Frame("panic: reflect.Value.Set using value obtained using unexported field")>>
ErrEntityNil == <<Frame("entity cannot be nil")>>

Ok(v) == [val |-> v, err |-> NoErr]

\* a panic is not an error value: it unwinds through the callers unwrapped
IsPanic(e) == e = ErrPanicUnexported

\* fmt.Errorf("<frame>: %w", e)
Wrapf(frame, e) == IF IsPanic(e) THEN e ELSE <<frame>> \o e
Failed(v, e) == [val |-> v, err |-> e]

-----------------------------------------------------------------------------
(* Field-by-field mapping.  Every operator returns [val, err]: the new     *)
(* destination value and the error.  ro says the source value was reached  *)
(* through an unexported field (reflect's flagRO).                         *)

RECURSIVE mapFieldValue(_, _, _, _, _)
RECURSIVE mapStructToStruct(_, _, _, _, _)
RECURSIVE mapSliceToSlice(_, _, _, _, _)
RECURSIVE StructLoop(_, _, _, _, _, _)
RECURSIVE SliceLoop(_, _, _, _, _, _)

\* a variant that never assigns the destination
mapFieldValueSkip(sv, st, ro, dv, dt) == Ok(dv)

\* a variant that does not follow a pointer source into a struct
mapFieldValueNoDeref(sv, st, ro, dv, dt) ==
    IF ConvertibleTo(st, dt)
    THEN IF ro THEN Failed(dv, ErrPanicUnexported) ELSE Ok(Convert(sv, st, dt))
    ELSE IF Kind(st) = "struct" /\ Kind(dt) = "struct"
    THEN mapStructToStruct(sv, st, ro, dv, dt)
    ELSE IF Kind(st) = "slice" /\ Kind(dt) = "slice"
    THEN mapSliceToSlice(sv, st, ro, dv, dt)
    ELSE Ok(dv)

mapFieldValue(sv, st, ro, dv, dt) ==
    IF ConvertibleTo(st, dt)
    THEN IF ro THEN Failed(dv, ErrPanicUnexported) ELSE Ok(Convert(sv, st, dt))
    ELSE IF \/ Kind(st) = "struct" /\ Kind(dt) = "struct"
            \/ Kind(st) = "ptr" /\ sv # NilPtr /\ Kind(dt) = "struct" /\ Kind(Elem(st)) = "struct"
    THEN mapStructToStruct(IF Kind(st) = "ptr" THEN sv[1] ELSE sv,
                           IF Kind(st) = "ptr" THEN Elem(st) ELSE st, ro, dv, dt)
    ELSE IF Kind(st) = "slice" /\ Kind(dt) = "slice"
    THEN mapSliceToSlice(sv, st, ro, dv, dt)
    ELSE Ok(dv)

\* one pass of a "for i ... NumField()" loop body: the destination field i
\* is skipped when it cannot be set or has no source field (j = 0)
FieldStep(sv, st, ro, dv, df, j) ==
    IF ~IsExported(df) \/ j = 0 THEN Ok(dv)
    ELSE mapFieldValue(sv[j], StructFields(st)[j].Type,
                       ro \/ ~IsExported(StructFields(st)[j]), dv, df.Type)

\* the rest of the loop after field i gave r
StructRest(sv, st, ro, dv, dt, i, r) ==
    IF r.err # NoErr
    THEN Failed(dv, Wrapf(FieldFrame("error mapping nested field", StructFields(dt)[i].Name), r.err))
    ELSE StructLoop(sv, st, ro, [dv EXCEPT ![i] = r.val], dt, i + 1)

\* the loop over the destination's fields, from field i on
StructLoop(sv, st, ro, dv, dt, i) ==
    IF i > Len(StructFields(dt)) THEN Ok(dv)
    ELSE StructRest(sv, st, ro, dv, dt, i,
                    FieldStep(sv, st, ro, dv[i], StructFields(dt)[i],
                              SourceField(st, dt, i)))

mapStructToStruct(sv, st, ro, dv, dt) == StructLoop(sv, st, ro, dv, dt, 1)

\* one pass of the loop over the source's elements
ElemStep(se, et, ro, de, dte) ==
    IF Kind(et) = "struct" /\ Kind(dte) = "struct"
    THEN mapStructToStruct(se, et, ro, de, dte)
    ELSE IF ConvertibleTo(et, dte)
    THEN IF ro THEN Failed(de, ErrPanicUnexported) ELSE Ok(Convert(se, et, dte))
    ELSE Ok(de)

\* the rest of the loop after element i gave r
SliceRest(sv, st, ro, acc, dt, i, r) ==
    IF r.err # NoErr
    THEN Failed(NilSlice, Wrapf(IndexFrame("error mapping slice element", i - 1), r.err))
    ELSE SliceLoop(sv, st, ro, [acc EXCEPT ![i] = r.val], dt, i + 1)

\* the loop over the source's elements, from element i on; acc is newSlice
SliceLoop(sv, st, ro, acc, dt, i) ==
    IF i > Len(sv.elems) THEN Ok(SliceOf(acc))
    ELSE SliceRest(sv, st, ro, acc, dt, i,
                   ElemStep(sv.elems[i], Elem(st), ro, acc[i], Elem(dt)))

\* the result of the loop, or the destination as it was when the loop failed
SliceResult(dv, r) == IF r.err # NoErr THEN Failed(dv, r.err) ELSE r

mapSliceToSlice(sv, st, ro, dv, dt) ==
    IF Len(sv.elems) = 0 THEN Ok(dv)
    ELSE SliceResult(dv, SliceLoop(sv, st, ro,
                                   [i \in 1..Len(sv.elems) |-> Zero(Elem(dt))], dt, 1))

\* T, the repository's entity type
EntityType == "User"

RECURSIVE EntityLoop(_, _, _, _)

\* the rest of mapEntityToDTO's loop after DTO field i gave r
EntityRest(ev, dv, d, i, r) ==
    IF r.err # NoErr
    THEN Failed(dv, Wrapf(FieldFrame("error mapping field", StructFields(d)[i].Name), r.err))
    ELSE EntityLoop(ev, [dv EXCEPT ![i] = r.val], d, i + 1)

\* mapEntityToDTO's loop over the DTO's fields, from field i on.
\* entityValue is reached through the exported pointer: ro is FALSE.
EntityLoop(ev, dv, d, i) ==
    IF i > Len(StructFields(d)) THEN Ok(dv)
    ELSE EntityRest(ev, dv, d, i,
                    FieldStep(ev, EntityType, FALSE, dv[i], StructFields(d)[i],
                              SourceField(EntityType, d, i)))

\* a nil error gives the pointer to the filled DTO
EntityResult(r) == IF r.err # NoErr THEN Failed(NilPtr, r.err) ELSE Ok(PtrTo(r.val))

\* entity is a *T; the result is [val |-> pointer to the DTO or nil, err]
mapEntityToDTO(entity, d) ==
    IF entity = NilPtr THEN Failed(NilPtr, ErrEntityNil)
    ELSE EntityResult(EntityLoop(entity[1], Zero(d), d, 1))

-----------------------------------------------------------------------------
(* The database engine behind *gorm.DB, as far as the repository uses it.  *)
(* A *gorm.DB value is the query state accumulated by the builder calls;   *)
(* every builder call returns a new value.  table holds the stored rows in *)
(* primary-key order.  An association of a row is returned by a read only  *)
(* when it was preloaded.                                                  *)

NoLimit == 0 - 1

ErrRecordNotFound == <<Frame("record not found")>>
ErrEngine == <<Frame("engine failure")>>
ErrDuplicate == <<Frame("duplicate primary key")>>
ErrNoProjection == <<Frame("no projection configured - use ProjectToDTO() first")>>
ErrNoResult == <<Frame("no current result available - execute a query first (FindOne, FindByID, etc.)")>>
ErrNoSlice == <<Frame("no slice result available for conversion")>>
ErrSliceNil == <<Frame("entity slice cannot be nil")>>

Row1 == <<1, "Ana", "a@x.com", PtrTo(<<"bio1">>), SliceOf(<< <<10>>, <<20>> >>), "s1">>
Row2 == <<2, "Bob", "b@x.com", NilPtr, SliceOf(<<>>), "s2">>
Row3 == <<3, "Cy", "c@x.com", NilPtr, NilSlice, "s3">>
Row4 == <<4, "Di", "d@x.com", PtrTo(<<"bio4">>), NilSlice, "s4">>

\* the entities callers pass to Create / Update, the ids to Delete
NewEntities == {Row3}
DeleteIds == {3}
\* the filter maps callers pass to FindOne, the conditions to Where
Cond(col, val) == [col |-> col, val |-> val]
FilterMaps == { {}, {Cond("id", 9)} }
WhereConds == { Cond("id", 2) }
LimitArgs == {1}
\* the slices callers pass to CreateBatch and ProjectEntitySlice
EntitySlices == { SliceOf(<<>>), SliceOf(<<Row4, Row3>>) }
\* the DTO types callers project to in the repository runs
RepoDTOs == {"UserBasic", "UserDetail"}

\* a handle: the connection it runs on, whether a context was attached,
\* and the query state accumulated on it
NewDB == [conn |-> "db", ctx |-> FALSE,
          wheres |-> {}, limit |-> NoLimit, offset |-> 0, preloads |-> <<>>, selects |-> <<>>]

\* db.WithContext(ctx) and the tx handle of db.Transaction: sessions of db
\* that keep what db has accumulated
DBWithContext(db) == [db EXCEPT !.ctx = TRUE]
DBBegin(db) == [db EXCEPT !.conn = "tx"]

DBWhere(db, c) == [db EXCEPT !.wheres = @ \cup {c}]
DBLimit(db, n) == [db EXCEPT !.limit = n]
DBOffset(db, n) == [db EXCEPT !.offset = n]
DBPreload(db, name) == [db EXCEPT !.preloads = Append(@, name)]
DBSelect(db, cols) == [db EXCEPT !.selects = Append(@, cols)]

RECURSIVE DBPreloadAll(_, _)
DBPreloadAll(db, names) ==
    IF names = <<>> THEN db ELSE DBPreloadAll(DBPreload(db, Head(names)), Tail(names))

ColumnValue(row, col) == IF col = "id" THEN row[1] ELSE row[2]

RowMatches(row, db) == \A c \in db.wheres : ColumnValue(row, c.col) = c.val

HasPreload(db, name) == \E i \in 1..Len(db.preloads) : db.preloads[i] = name

\* a stored row as a read with this query state returns it
LoadRow(row, db) ==
    [row EXCEPT ![4] = IF HasPreload(db, N_Profile) THEN @ ELSE NilPtr,
                ![5] = IF HasPreload(db, N_Orders) THEN @ ELSE NilSlice]

MatchingRows(db, rows) ==
    LET hit(row) == RowMatches(row, db)
        found == SelectSeq(rows, hit)
    IN [i \in 1..Len(found) |-> LoadRow(found[i], db)]

\* a negative limit and a non-positive offset put no clause in the query
Limited(rows, n) == IF n < 0 \/ n >= Len(rows) THEN rows ELSE SubSeq(rows, 1, n)

Skipped(rows, k) ==
    IF k <= 0 THEN rows
    ELSE IF k >= Len(rows) THEN <<>> ELSE SubSeq(rows, k + 1, Len(rows))

\* db.First(&entity): the first matching row in primary-key order
EngineFirst(db, rows, fail) ==
    IF fail THEN [ent |-> Zero(EntityType), err |-> ErrEngine]
    ELSE IF Skipped(MatchingRows(db, rows), db.offset) = <<>>
    THEN [ent |-> Zero(EntityType), err |-> ErrRecordNotFound]
    ELSE [ent |-> Skipped(MatchingRows(db, rows), db.offset)[1], err |-> NoErr]

\* db.Find(&entities): the matching rows, cut to the limit
EngineFind(db, rows, fail) ==
    IF fail THEN [list |-> NilSlice, err |-> ErrEngine]
    ELSE [list |-> SliceOf(Limited(Skipped(MatchingRows(db, rows), db.offset), db.limit)),
          err |-> NoErr]

\* db.Count(&count): the number of rows matching the query's conditions
EngineCount(db, rows, fail) ==
    IF fail THEN [count |-> 0, err |-> ErrEngine]
    ELSE [count |-> Len(MatchingRows(db, rows)), err |-> NoErr]

HasRow(rows, id) == \E i \in 1..Len(rows) : rows[i][1] = id

RECURSIVE InsertRow(_, _)
InsertRow(rows, e) ==
    IF rows = <<>> THEN <<e>>
    ELSE IF Head(rows)[1] = e[1] THEN <<e>> \o Tail(rows)
    ELSE IF Head(rows)[1] > e[1] THEN <<e>> \o rows
    ELSE <<Head(rows)>> \o InsertRow(Tail(rows), e)

RECURSIVE InsertAll(_, _)
InsertAll(rows, es) ==
    IF es = <<>> THEN rows ELSE InsertAll(InsertRow(rows, Head(es)), Tail(es))

DeleteRow(rows, id) == LET keep(row) == row[1] # id IN SelectSeq(rows, keep)

\* db.Create(entity): the error, nil when the row was inserted
EngineCreateErr(rows, es, fail) ==
    IF fail THEN ErrEngine
    ELSE IF \E i \in 1..Len(es) : HasRow(rows, es[i][1]) THEN ErrDuplicate
    ELSE NoErr

\* db.Save(entity) and db.Delete(...): the error
EngineWriteErr(fail) == IF fail THEN ErrEngine ELSE NoErr

-----------------------------------------------------------------------------
(* GenericRepository[T].  repos is the heap of repository objects; a       *)
(* *GenericRepository[T] is an index into it.  last records the most       *)
(* recent call: the operation, its receiver and what it returned.          *)

NoProjection == ""

NewRepo(db) ==
    [db |-> db, projection |-> NoProjection, projectionMode |-> "",
     currentResult |-> NilPtr, currentSlice |-> NilPtr, lastError |-> NoErr]

\* what GetPrimaryKey returns: (name, value, error); an any is a boxed value
NilAny == <<>>
AnyOf(v) == <<v>>
KeyResult(name, value, err) == [name |-> name, value |-> value, err |-> err]
NoKey == KeyResult(<<>>, NilAny, NoErr)

\* a callback passed to Transaction: the entities it creates through the
\* repository it is handed, in order, and what it returns: nil, an error
\* of its own, or the handed repository's Error()
TxFn(creates, ret) == [creates |-> creates, ret |-> ret]
NoFn == TxFn(<<>>, "nil")

NoCall ==
    [op |-> "", recv |-> 0, ret |-> 0, ent |-> NilPtr, list |-> NilPtr, out |-> NilPtr,
     names |-> <<>>, flag |-> FALSE, err |-> NoErr, execs |-> 0,
     count |-> 0, filters |-> {}, args |-> <<>>, pk |-> NoKey,
     fn |-> NoFn, given |-> NilPtr]

Repos == 1..Len(repos)

\* a fluent method: the receiver is changed to rec and returned
Fluent(op, r, rec, execs) ==
    /\ repos' = [repos EXCEPT ![r] = rec]
    /\ last' = [NoCall EXCEPT !.op = op, !.recv = r, !.ret = r, !.execs = execs]

\* a variant in which a successful create clears the stored error
CreateClearing(r, e, fail) ==
    LET err == EngineCreateErr(table, <<e>>, fail)
    IN /\ table' = IF err = NoErr THEN InsertRow(table, e) ELSE table
       /\ Fluent("Create", r,
                 IF err # NoErr THEN [repos[r] EXCEPT !.lastError = err]
                 ELSE [repos[r] EXCEPT !.currentResult = PtrTo(e), !.lastError = NoErr], 1)
       /\ UNCHANGED <<dto, fld>>

Create(r, e, fail) ==
    LET err == EngineCreateErr(table, <<e>>, fail)
    IN /\ table' = IF err = NoErr THEN InsertRow(table, e) ELSE table
       /\ Fluent("Create", r,
                 IF err # NoErr THEN [repos[r] EXCEPT !.lastError = err]
                 ELSE [repos[r] EXCEPT !.currentResult = PtrTo(e)], 1)
       /\ UNCHANGED <<dto, fld>>

CreateBatch(r, es, fail) ==
    LET err == EngineCreateErr(table, es.elems, fail)
    IN /\ table' = IF err = NoErr THEN InsertAll(table, es.elems) ELSE table
       /\ Fluent("CreateBatch", r,
                 IF err # NoErr THEN [repos[r] EXCEPT !.lastError = err]
                 ELSE [repos[r] EXCEPT !.currentSlice = PtrTo(es)], 1)
       /\ UNCHANGED <<dto, fld>>

\* a variant that stores the entity also when the save fails
UpdateStoring(r, e, fail) ==
    LET err == EngineWriteErr(fail)
    IN /\ table' = IF err = NoErr THEN InsertRow(table, e) ELSE table
       /\ Fluent("Update", r,
                 IF err # NoErr THEN [repos[r] EXCEPT !.lastError = err, !.currentResult = PtrTo(e)]
                 ELSE [repos[r] EXCEPT !.currentResult = PtrTo(e)], 1)
       /\ UNCHANGED <<dto, fld>>

Update(r, e, fail) ==
    LET err == EngineWriteErr(fail)
    IN /\ table' = IF err = NoErr THEN InsertRow(table, e) ELSE table
       /\ Fluent("Update", r,
                 IF err # NoErr THEN [repos[r] EXCEPT !.lastError = err]
                 ELSE [repos[r] EXCEPT !.currentResult = PtrTo(e)], 1)
       /\ UNCHANGED <<dto, fld>>

Delete(r, id, fail) ==
    LET err == EngineWriteErr(fail)
    IN /\ table' = IF err = NoErr THEN DeleteRow(table, id) ELSE table
       /\ Fluent("Delete", r,
                 IF err # NoErr THEN [repos[r] EXCEPT !.lastError = err] ELSE repos[r], 1)
       /\ UNCHANGED <<dto, fld>>

FindAll(r) ==
    /\ Fluent("FindAll", r, repos[r], 0)
    /\ UNCHANGED <<table, dto, fld>>

Where(r, c) ==
    /\ Fluent("Where", r, [repos[r] EXCEPT !.db = DBWhere(@, c)], 0)
    /\ UNCHANGED <<table, dto, fld>>

Limit(r, n) ==
    /\ Fluent("Limit", r, [repos[r] EXCEPT !.db = DBLimit(@, n)], 0)
    /\ UNCHANGED <<table, dto, fld>>

RECURSIVE DBWhereAll(_, _)
\* "for k, v := range filters { query = query.Where(k+" = ?", v) }"
DBWhereAll(db, filters) ==
    IF filters = {} THEN db
    ELSE LET c == CHOOSE x \in filters : TRUE
         IN DBWhereAll(DBWhere(db, c), filters \ {c})

\* a variant that queries with the filters but does not keep them
FindOneFresh(r, filters, fail) ==
    LET query == DBWhereAll(repos[r].db, filters)
        res == EngineFirst(query, table, fail)
    IN /\ Fluent("FindOne", r,
                 IF res.err # NoErr THEN [repos[r] EXCEPT !.lastError = res.err]
                 ELSE [repos[r] EXCEPT !.currentResult = PtrTo(res.ent)], 1)
       /\ UNCHANGED <<table, dto, fld>>

FindOne(r, filters, fail) ==
    LET query == DBWhereAll(repos[r].db, filters)
        res == EngineFirst(query, table, fail)
    IN /\ Fluent("FindOne", r,
                 IF res.err # NoErr THEN [repos[r] EXCEPT !.db = query, !.lastError = res.err]
                 ELSE [repos[r] EXCEPT !.db = query, !.currentResult = PtrTo(res.ent)], 1)
       /\ UNCHANGED <<table, dto, fld>>

\* singleResult and listResult return (&entity, err) and (&entities, err)
singleResult(rec, fail) == EngineFirst(rec.db, table, fail)
listResult(rec, fail) == EngineFind(rec.db, table, fail)

First(r, fail) ==
    LET res == singleResult(repos[r], fail)
    IN /\ last' = [NoCall EXCEPT !.op = "First", !.recv = r, !.ent = PtrTo(res.ent),
                                 !.err = res.err, !.execs = 1]
       /\ UNCHANGED <<repos, table, dto, fld>>

Get(r, fail) ==
    LET res == listResult(repos[r], fail)
    IN /\ last' = [NoCall EXCEPT !.op = "Get", !.recv = r, !.list = PtrTo(res.list),
                                 !.err = res.err, !.execs = 1]
       /\ UNCHANGED <<repos, table, dto, fld>>

\* a variant that executes without setting the limit
OneNoLimit(r, fail) ==
    LET res == singleResult(repos[r], fail)
    IN /\ last' = [NoCall EXCEPT !.op = "One", !.recv = r, !.ent = PtrTo(res.ent),
                                 !.err = res.err, !.execs = 1]
       /\ UNCHANGED <<repos, table, dto, fld>>

One(r, fail) ==
    LET rec == [repos[r] EXCEPT !.db = DBLimit(@, 1)]
        res == singleResult(rec, fail)
    IN /\ repos' = [repos EXCEPT ![r] = rec]
       /\ last' = [NoCall EXCEPT !.op = "One", !.recv = r, !.ent = PtrTo(res.ent),
                                 !.err = res.err, !.execs = 1]
       /\ UNCHANGED <<table, dto, fld>>

\* the width of int, and int arithmetic as the machine does it: results
\* wrap around into -2^(IntBits-1) .. 2^(IntBits-1) - 1
IntBits == 16

WrapInt(x) == ((x + 2^(IntBits - 1)) % 2^IntBits) - 2^(IntBits - 1)

Offset(r, n) ==
    /\ Fluent("Offset", r, [repos[r] EXCEPT !.db = DBOffset(@, n)], 0)
    /\ UNCHANGED <<table, dto, fld>>

\* "offset := (page - 1) * pageSize; return r.Offset(offset).Limit(pageSize)"
Paginate(r, page, pageSize) ==
    LET offset == WrapInt(WrapInt(page - 1) * pageSize)
    IN /\ repos' = [repos EXCEPT ![r].db = DBLimit(DBOffset(@, offset), pageSize)]
       /\ last' = [NoCall EXCEPT !.op = "Paginate", !.recv = r, !.ret = r,
                                 !.args = <<page, pageSize>>]
       /\ UNCHANGED <<table, dto, fld>>

\* the base query of Count, r.db.Model(new(T)), is built on the
\* receiver's handle and keeps what the handle has accumulated
CountQuery(rec, filters) == DBWhereAll(rec.db, filters)

Count(r, filters, fail) ==
    LET res == EngineCount(CountQuery(repos[r], filters), table, fail)
    IN /\ last' = [NoCall EXCEPT !.op = "Count", !.recv = r, !.filters = filters,
                                 !.count = res.count, !.err = res.err, !.execs = 1]
       /\ UNCHANGED <<repos, table, dto, fld>>

Exists(r, filters, fail) ==
    LET res == EngineCount(CountQuery(repos[r], filters), table, fail)
    IN /\ last' = [NoCall EXCEPT !.op = "Exists", !.recv = r, !.filters = filters,
                                 !.count = res.count, !.flag = res.count > 0,
                                 !.err = res.err, !.execs = 1]
       /\ UNCHANGED <<repos, table, dto, fld>>

ErrAborted == <<Frame("aborted by caller")>>

\* tx.Create(e) inside a callback: st is the handed repository and the
\* rows the transaction sees
TxCreate(st, e) ==
    IF EngineCreateErr(st.rows, <<e>>, FALSE) # NoErr
    THEN [rec |-> [st.rec EXCEPT !.lastError = EngineCreateErr(st.rows, <<e>>, FALSE)],
          rows |-> st.rows]
    ELSE [rec |-> [st.rec EXCEPT !.currentResult = PtrTo(e)], rows |-> InsertRow(st.rows, e)]

RECURSIVE RunFn(_, _)
RunFn(st, es) == IF es = <<>> THEN st ELSE RunFn(TxCreate(st, Head(es)), Tail(es))

FnReturn(fn, st) ==
    IF fn.ret = "nil" THEN NoErr
    ELSE IF fn.ret = "own" THEN ErrAborted
    ELSE st.rec.lastError

\* a variant that also rolls back when the handed repository recorded an
\* error
TxOutcomeChecked(rows, fn, st) ==
    LET err == IF FnReturn(fn, st) # NoErr THEN FnReturn(fn, st) ELSE st.rec.lastError
    IN [rows |-> IF err = NoErr THEN st.rows ELSE rows, err |-> err]

\* db.Transaction(f): f runs on the tx handle; its writes are kept when it
\* returns nil and discarded otherwise, and its error is returned
TxOutcome(rows, fn, st) ==
    [rows |-> IF FnReturn(fn, st) = NoErr THEN st.rows ELSE rows, err |-> FnReturn(fn, st)]

\* a variant that hands fn the receiver's slots with the tx handle
TransactionShared(r, fn) ==
    LET txRepo == [repos[r] EXCEPT !.db = DBBegin(repos[r].db)]
        st == RunFn([rec |-> txRepo, rows |-> table], fn.creates)
        res == TxOutcome(table, fn, st)
    IN /\ repos' = Append(repos, st.rec)
       /\ table' = res.rows
       /\ last' = [NoCall EXCEPT !.op = "Transaction", !.recv = r, !.ret = Len(repos) + 1,
                                 !.fn = fn, !.given = PtrTo(txRepo), !.err = res.err]
       /\ UNCHANGED <<dto, fld>>

\* "txRepo := &GenericRepository[T]{db: tx}; return fn(txRepo)"; the
\* object handed to fn stays in the heap as fn left it
Transaction(r, fn) ==
    LET txRepo == NewRepo(DBBegin(repos[r].db))
        st == RunFn([rec |-> txRepo, rows |-> table], fn.creates)
        res == TxOutcome(table, fn, st)
    IN /\ repos' = Append(repos, st.rec)
       /\ table' = res.rows
       /\ last' = [NoCall EXCEPT !.op = "Transaction", !.recv = r, !.ret = Len(repos) + 1,
                                 !.fn = fn, !.given = PtrTo(txRepo), !.err = res.err]
       /\ UNCHANGED <<dto, fld>>

\* "return &GenericRepository[T]{db: db}"
WithDB(r, db) ==
    /\ repos' = Append(repos, NewRepo(db))
    /\ last' = [NoCall EXCEPT !.op = "WithDB", !.recv = r, !.ret = Len(repos) + 1]
    /\ UNCHANGED <<table, dto, fld>>

\* the repository the context-scoped methods allocate
ContextRepo(rec) ==
    [NewRepo(DBWithContext(rec.db)) EXCEPT !.projection = rec.projection,
                                           !.projectionMode = rec.projectionMode]

\* a variant that attaches the context to the receiver and creates on it
CreateWithContextInPlace(r, e, fail) ==
    LET err == EngineCreateErr(table, <<e>>, fail)
        rec == [repos[r] EXCEPT !.db = DBWithContext(@)]
    IN /\ table' = IF err = NoErr THEN InsertRow(table, e) ELSE table
       /\ repos' = [repos EXCEPT ![r] =
                        IF err # NoErr THEN [rec EXCEPT !.lastError = err]
                        ELSE [rec EXCEPT !.currentResult = PtrTo(e)]]
       /\ last' = [NoCall EXCEPT !.op = "CreateWithContext", !.recv = r, !.ret = r,
                                 !.execs = 1]
       /\ UNCHANGED <<dto, fld>>

\* "return contextRepo.Create(entity)"
CreateWithContext(r, e, fail) ==
    LET err == EngineCreateErr(table, <<e>>, fail)
        rec == ContextRepo(repos[r])
    IN /\ table' = IF err = NoErr THEN InsertRow(table, e) ELSE table
       /\ repos' = Append(repos, IF err # NoErr THEN [rec EXCEPT !.lastError = err]
                                 ELSE [rec EXCEPT !.currentResult = PtrTo(e)])
       /\ last' = [NoCall EXCEPT !.op = "CreateWithContext", !.recv = r,
                                 !.ret = Len(repos) + 1, !.execs = 1]
       /\ UNCHANGED <<dto, fld>>

\* "return contextRepo.Where("id = ?", id)"
FindByIDWithContext(r, id) ==
    /\ repos' = Append(repos, [ContextRepo(repos[r]) EXCEPT !.db = DBWhere(@, Cond("id", id))])
    /\ last' = [NoCall EXCEPT !.op = "FindByIDWithContext", !.recv = r, !.ret = Len(repos) + 1]
    /\ UNCHANGED <<table, dto, fld>>

\* a variant that applies both the preloads and the select
ProjectionDBBoth(db, d) ==
    DBSelect(DBPreloadAll(db, extractPreloadsFromDTO(d)),
             Join(createProjectionFromDTO(d), CommaSpace))

\* the two branches of ProjectToDTO on newRepo.db
ProjectionDB(db, d) ==
    IF hasStructFields(d)
    THEN DBPreloadAll(db, extractPreloadsFromDTO(d))
    ELSE IF Len(createProjectionFromDTO(d)) > 0
    THEN DBSelect(db, Join(createProjectionFromDTO(d), CommaSpace))
    ELSE db

\* a variant whose copy starts with empty result and error slots
ProjectToDTOFresh(r, d) ==
    LET newRepo == [db |-> ProjectionDB(repos[r].db, d),
                    projection |-> d,
                    projectionMode |-> "dto",
                    currentResult |-> NilPtr,
                    currentSlice |-> NilPtr,
                    lastError |-> NoErr]
    IN /\ repos' = Append(repos, newRepo)
       /\ last' = [NoCall EXCEPT !.op = "ProjectToDTO", !.recv = r, !.ret = Len(repos) + 1]
       /\ UNCHANGED <<table, dto, fld>>

\* a variant that also configures the receiver
ProjectToDTOInPlace(r, d) ==
    LET newRepo == [db |-> ProjectionDB(repos[r].db, d),
                    projection |-> d,
                    projectionMode |-> "dto",
                    currentResult |-> repos[r].currentResult,
                    currentSlice |-> repos[r].currentSlice,
                    lastError |-> repos[r].lastError]
    IN /\ repos' = Append([repos EXCEPT ![r] = newRepo], newRepo)
       /\ last' = [NoCall EXCEPT !.op = "ProjectToDTO", !.recv = r, !.ret = Len(repos) + 1]
       /\ UNCHANGED <<table, dto, fld>>

ProjectToDTO(r, d) ==
    LET newRepo == [db |-> ProjectionDB(repos[r].db, d),
                    projection |-> d,
                    projectionMode |-> "dto",
                    currentResult |-> repos[r].currentResult,
                    currentSlice |-> repos[r].currentSlice,
                    lastError |-> repos[r].lastError]
    IN /\ repos' = Append(repos, newRepo)
       /\ last' = [NoCall EXCEPT !.op = "ProjectToDTO", !.recv = r, !.ret = Len(repos) + 1]
       /\ UNCHANGED <<table, dto, fld>>

\* a variant that returns the stored error first, as ProjectSlice does
ProjectChecked(r) ==
    LET res == IF repos[r].lastError # NoErr THEN Failed(NilPtr, repos[r].lastError)
               ELSE IF repos[r].projection = NoProjection THEN Failed(NilPtr, ErrNoProjection)
               ELSE IF repos[r].currentResult = NilPtr THEN Failed(NilPtr, ErrNoResult)
               ELSE mapEntityToDTO(repos[r].currentResult, repos[r].projection)
    IN /\ last' = [NoCall EXCEPT !.op = "Project", !.recv = r, !.out = res.val, !.err = res.err]
       /\ UNCHANGED <<repos, table, dto, fld>>

Project(r) ==
    LET res == IF repos[r].projection = NoProjection THEN Failed(NilPtr, ErrNoProjection)
               ELSE IF repos[r].currentResult = NilPtr THEN Failed(NilPtr, ErrNoResult)
               ELSE mapEntityToDTO(repos[r].currentResult, repos[r].projection)
    IN /\ last' = [NoCall EXCEPT !.op = "Project", !.recv = r, !.out = res.val, !.err = res.err]
       /\ UNCHANGED <<repos, table, dto, fld>>

RECURSIVE ConvertEachReversed(_, _, _, _)
\* a variant that puts each converted element in front of the result
ConvertEachReversed(elems, d, acc, i) ==
    IF i > Len(elems) THEN Ok(PtrTo(SliceOf(acc)))
    ELSE LET r == mapEntityToDTO(PtrTo(elems[i]), d)
         IN IF r.err # NoErr THEN Failed(NilPtr, r.err)
            ELSE ConvertEachReversed(elems, d, <<r.val[1]>> \o acc, i + 1)

RECURSIVE ConvertEach(_, _, _, _)
\* "for _, entity := range ... { mapEntityToDTO(&entity, ...); Append }", from
\* element i on; acc is resultSlice
ConvertEach(elems, d, acc, i) ==
    IF i > Len(elems) THEN Ok(PtrTo(SliceOf(acc)))
    ELSE LET r == mapEntityToDTO(PtrTo(elems[i]), d)
         IN IF r.err # NoErr THEN Failed(NilPtr, Wrapf(Frame("error converting entity"), r.err))
            ELSE ConvertEach(elems, d, Append(acc, r.val[1]), i + 1)

\* entities is a *[]T; the result is [val |-> the interface{} returned, err]
ProjectEntitySliceResult(entities, d) ==
    IF entities = NilPtr THEN Failed(NilPtr, ErrSliceNil)
    ELSE IF Len(entities[1].elems) = 0 THEN Ok(PtrTo(SliceOf(<<>>)))
    ELSE ConvertEach(entities[1].elems, d, <<>>, 1)

ProjectSliceResult(rec) ==
    IF rec.lastError # NoErr THEN Failed(NilPtr, rec.lastError)
    ELSE IF rec.currentSlice = NilPtr THEN Failed(NilPtr, ErrNoSlice)
    ELSE IF rec.projection = NoProjection THEN Failed(NilPtr, ErrNoProjection)
    ELSE IF Len(rec.currentSlice[1].elems) = 0 THEN Ok(PtrTo(SliceOf(<<>>)))
    ELSE ConvertEach(rec.currentSlice[1].elems, rec.projection, <<>>, 1)

ProjectSlice(r) ==
    LET res == ProjectSliceResult(repos[r])
    IN /\ last' = [NoCall EXCEPT !.op = "ProjectSlice", !.recv = r, !.list = repos[r].currentSlice,
                                 !.out = res.val, !.err = res.err]
       /\ UNCHANGED <<repos, table, dto, fld>>

ProjectEntity(r, entity, d) ==
    LET res == IF entity = NilPtr THEN Failed(NilPtr, ErrEntityNil)
               ELSE mapEntityToDTO(entity, d)
    IN /\ last' = [NoCall EXCEPT !.op = "ProjectEntity", !.recv = r, !.ent = entity,
                                 !.out = res.val, !.err = res.err]
       /\ UNCHANGED <<repos, table, dto, fld>>

ProjectEntitySlice(r, entities, d) ==
    LET res == ProjectEntitySliceResult(entities, d)
    IN /\ last' = [NoCall EXCEPT !.op = "ProjectEntitySlice", !.recv = r, !.list = entities,
                                 !.out = res.val, !.err = res.err]
       /\ UNCHANGED <<repos, table, dto, fld>>

HasError(r) ==
    /\ last' = [NoCall EXCEPT !.op = "HasError", !.recv = r, !.flag = (repos[r].lastError # NoErr)]
    /\ UNCHANGED <<repos, table, dto, fld>>

Error(r) ==
    /\ last' = [NoCall EXCEPT !.op = "Error", !.recv = r, !.err = repos[r].lastError]
    /\ UNCHANGED <<repos, table, dto, fld>>

Result(r) ==
    /\ last' = [NoCall EXCEPT !.op = "Result", !.recv = r, !.ent = repos[r].currentResult,
                              !.err = repos[r].lastError]
    /\ UNCHANGED <<repos, table, dto, fld>>

Results(r) ==
    /\ last' = [NoCall EXCEPT !.op = "Results", !.recv = r, !.list = repos[r].currentSlice,
                              !.err = repos[r].lastError]
    /\ UNCHANGED <<repos, table, dto, fld>>

Execute(r) ==
    /\ last' = [NoCall EXCEPT !.op = "Execute", !.recv = r, !.err = repos[r].lastError]
    /\ UNCHANGED <<repos, table, dto, fld>>

-----------------------------------------------------------------------------
(* The repository run: one caller-visible call per step, on any repository *)
(* object, at most MaxCalls calls in a run.                                *)

MaxCalls == 4

DefaultField == Fld(N_Name, "string", NoTag)

Init ==
    /\ repos = <<NewRepo(NewDB)>>
    /\ table = <<Row1, Row2>>
    /\ last = NoCall
    /\ dto = "UserBasic"
    /\ fld = DefaultField
    /\ calls = 0

\* one more call, while the run's budget of calls lasts
Tick == calls < MaxCalls /\ calls' = calls + 1

DoCreate == Tick /\ \E r \in Repos, e \in NewEntities, fail \in BOOLEAN : Create(r, e, fail)
DoCreateBatch == Tick /\ \E r \in Repos, es \in EntitySlices, fail \in BOOLEAN : CreateBatch(r, es, fail)
DoUpdate == Tick /\ \E r \in Repos, e \in NewEntities, fail \in BOOLEAN : Update(r, e, fail)
DoDelete == Tick /\ \E r \in Repos, id \in DeleteIds, fail \in BOOLEAN : Delete(r, id, fail)
DoFindAll == Tick /\ \E r \in Repos : FindAll(r)
DoWhere == Tick /\ \E r \in Repos, c \in WhereConds : Where(r, c)
DoLimit == Tick /\ \E r \in Repos, n \in LimitArgs : Limit(r, n)
DoFindOne == Tick /\ \E r \in Repos, f \in FilterMaps, fail \in BOOLEAN : FindOne(r, f, fail)
DoFirst == Tick /\ \E r \in Repos, fail \in BOOLEAN : First(r, fail)
DoGet == Tick /\ \E r \in Repos, fail \in BOOLEAN : Get(r, fail)
DoOne == Tick /\ \E r \in Repos, fail \in BOOLEAN : One(r, fail)
DoProjectToDTO == Tick /\ \E r \in Repos, d \in RepoDTOs : ProjectToDTO(r, d)
DoProject == Tick /\ \E r \in Repos : Project(r)
DoProjectSlice == Tick /\ \E r \in Repos : ProjectSlice(r)
DoHasError == Tick /\ \E r \in Repos : HasError(r)
DoError == Tick /\ \E r \in Repos : Error(r)
DoResult == Tick /\ \E r \in Repos : Result(r)
DoResults == Tick /\ \E r \in Repos : Results(r)
DoExecute == Tick /\ \E r \in Repos : Execute(r)

Next ==
    \/ DoCreate \/ DoCreateBatch \/ DoUpdate \/ DoDelete
    \/ DoFindAll \/ DoWhere \/ DoLimit \/ DoFindOne
    \/ DoFirst \/ DoGet \/ DoOne
    \/ DoProjectToDTO \/ DoProject \/ DoProjectSlice
    \/ DoHasError \/ DoError \/ DoResult \/ DoResults \/ DoExecute

Spec == Init /\ [][Next]_vars

-----------------------------------------------------------------------------
(* The projection run: the DTO type is drawn at the start; the steps apply *)
(* the projection helpers to it and run the calls that feed a projection   *)
(* (CreateBatch, ProjectToDTO, ProjectSlice, ProjectEntity,                *)
(* ProjectEntitySlice), at most MaxCalls of them.                          *)

MapArgs == {NilPtr, PtrTo(Row1), PtrTo(Row2), PtrTo(Row3)}
EntityArgs == {NilPtr, PtrTo(Row1)}
SliceArgs == {NilPtr, PtrTo(NilSlice)} \cup {PtrTo(es) : es \in EntitySlices}

CallHasStructFields ==
    /\ Tick
    /\ last' = [NoCall EXCEPT !.op = "hasStructFields", !.flag = hasStructFields(dto)]
    /\ UNCHANGED <<repos, table, dto, fld>>

CallExtractPreloadsFromDTO ==
    /\ Tick
    /\ last' = [NoCall EXCEPT !.op = "extractPreloadsFromDTO",
                              !.names = extractPreloadsFromDTO(dto)]
    /\ UNCHANGED <<repos, table, dto, fld>>

CallCreateProjectionFromDTO ==
    /\ Tick
    /\ last' = [NoCall EXCEPT !.op = "createProjectionFromDTO",
                              !.names = createProjectionFromDTO(dto)]
    /\ UNCHANGED <<repos, table, dto, fld>>

CallMapEntityToDTO ==
    \E e \in MapArgs :
        LET res == mapEntityToDTO(e, dto)
        IN /\ Tick
           /\ last' = [NoCall EXCEPT !.op = "mapEntityToDTO", !.ent = e,
                                     !.out = res.val, !.err = res.err]
           /\ UNCHANGED <<repos, table, dto, fld>>

DoProjectToDTOOfType == Tick /\ \E r \in Repos : ProjectToDTO(r, dto)
DoProjectEntity == Tick /\ \E r \in Repos, e \in EntityArgs : ProjectEntity(r, e, dto)
DoProjectEntitySlice == Tick /\ \E r \in Repos, es \in SliceArgs : ProjectEntitySlice(r, es, dto)

ProjectionInit ==
    /\ repos = <<NewRepo(NewDB)>>
    /\ table = <<Row1, Row2>>
    /\ last = NoCall
    /\ dto \in DTOTypes
    /\ fld = DefaultField
    /\ calls = 0

ProjectionNext ==
    \/ CallHasStructFields \/ CallExtractPreloadsFromDTO \/ CallCreateProjectionFromDTO
    \/ CallMapEntityToDTO
    \/ DoCreateBatch \/ DoProjectToDTOOfType \/ DoProjectSlice
    \/ DoProjectEntity \/ DoProjectEntitySlice

SpecProjection == ProjectionInit /\ [][ProjectionNext]_vars

-----------------------------------------------------------------------------
(* The naming run: a DTO field with its tags is drawn at the start; the    *)
(* steps apply the column-name helpers to it.                              *)

T_colEmpty == <<"c","o","l","u","m","n",":",";">> \o T_pk

TagFields ==
    { Fld(n, "string", [projection |-> p, gorm |-> g, json |-> j, preload |-> <<>>]) :
        n \in {N_Name, N_UserID},
        p \in {<<>>, T_name},
        g \in {<<>>, T_colEmail, T_pkColEmail, T_pk, T_colEmpty},
        j \in {<<>>, DashTag, T_jsonMail, T_jsonNick, T_jsonOmit} }

CallGetColumnNameFromDTO ==
    /\ last' = [NoCall EXCEPT !.op = "getColumnNameFromDTO",
                              !.names = <<getColumnNameFromDTO(fld)>>]
    /\ UNCHANGED <<repos, table, dto, fld, calls>>

CallGetColumnName ==
    /\ last' = [NoCall EXCEPT !.op = "getColumnName", !.names = <<getColumnName(fld)>>]
    /\ UNCHANGED <<repos, table, dto, fld, calls>>

CallToSnakeCase ==
    /\ last' = [NoCall EXCEPT !.op = "toSnakeCase", !.names = <<toSnakeCase(fld.Name)>>]
    /\ UNCHANGED <<repos, table, dto, fld, calls>>

\* more names to convert, the empty one included
SnakeNames == { <<>>, N_ID, N_FullName, N_secret, <<"a","B">>, <<"_","A","b">>, <<"X">> }

CallToSnakeCaseOf ==
    /\ \E n \in SnakeNames :
          last' = [NoCall EXCEPT !.op = "toSnakeCase", !.args = <<n>>,
                                 !.names = <<toSnakeCase(n)>>]
    /\ UNCHANGED <<repos, table, dto, fld, calls>>

NamingInit ==
    /\ repos = <<NewRepo(NewDB)>>
    /\ table = <<Row1, Row2>>
    /\ last = NoCall
    /\ dto = "UserBasic"
    /\ fld \in TagFields
    /\ calls = 0

NamingNext ==
    \/ CallGetColumnNameFromDTO \/ CallGetColumnName
    \/ CallToSnakeCase \/ CallToSnakeCaseOf

SpecNaming == NamingInit /\ [][NamingNext]_vars

-----------------------------------------------------------------------------
(* pkhelper.GetPrimaryKey.  An entity type is a list of fields, each with  *)
(* its name, type, gorm tag and whether it is embedded (anonymous); some   *)
(* types implement primaryKeyProvider.                                     *)

N_Id == <<"I","d">>
N_id == <<"i","d">>
N_Code == <<"C","o","d","e">>
N_Base == <<"B","a","s","e">>
N_Outer == <<"O","u","t","e","r">>
N_Meta == <<"M","e","t","a">>

KeyFld(name, type, gorm, anon) == [Name |-> name, Type |-> type, gorm |-> gorm, Anonymous |-> anon]

KeyTypes == {"Account", "Cased", "Legacy", "LegacyColumn", "Embeds", "EmbedFirst",
             "SiblingFirst", "Deep", "Named", "NoKey", "Keyed", "Lower", "PtrEmbeds"}

KeyStructTypes == KeyTypes \cup {"Base", "Outer"}

\* an entity type with the fields of User but no key: its first field is
\* Code with a unique index
T_unique == <<"u","n","i","q","u","e","I","n","d","e","x">>
AuditFields == <<Fld(N_Code, "int", [NoTag EXCEPT !.gorm = T_unique])>> \o Tail(UserFields)

KeyFields(t) ==
    CASE t = "Account" -> << KeyFld(N_ID, "int", <<>>, FALSE), KeyFld(N_Name, "string", <<>>, FALSE) >>
      [] t = "Cased" -> << KeyFld(N_Name, "string", <<>>, FALSE), KeyFld(N_Id, "int", <<>>, FALSE) >>
      [] t = "Legacy" -> << KeyFld(N_Name, "string", <<>>, FALSE), KeyFld(N_Code, "int", T_pk, FALSE) >>
      [] t = "LegacyColumn" -> << KeyFld(N_Code, "int", T_pkColEmail, FALSE) >>
      [] t = "Base" -> << KeyFld(N_ID, "int", <<>>, FALSE) >>
      [] t = "Outer" -> << KeyFld(N_Name, "string", <<>>, FALSE), KeyFld(N_Base, "Base", <<>>, TRUE) >>
      [] t = "Embeds" -> << KeyFld(N_Name, "string", <<>>, FALSE), KeyFld(N_Base, "Base", <<>>, TRUE) >>
      [] t = "EmbedFirst" -> << KeyFld(N_Base, "Base", <<>>, TRUE), KeyFld(N_Code, "int", T_pk, FALSE) >>
      [] t = "SiblingFirst" -> << KeyFld(N_Code, "int", T_pk, FALSE), KeyFld(N_Base, "Base", <<>>, TRUE) >>
      [] t = "Deep" -> << KeyFld(N_Outer, "Outer", <<>>, TRUE), KeyFld(N_Code, "int", T_pk, FALSE) >>
      [] t = "Named" -> << KeyFld(N_Name, "string", <<>>, FALSE), KeyFld(N_Meta, "Base", <<>>, FALSE) >>
      [] t = "NoKey" -> << KeyFld(N_Name, "string", <<>>, FALSE), KeyFld(N_Code, "int", <<>>, FALSE) >>
      [] t = "Keyed" -> << KeyFld(N_Code, "int", <<>>, FALSE), KeyFld(N_ID, "int", <<>>, FALSE) >>
      [] t = "Lower" -> << KeyFld(N_id, "int", <<>>, FALSE), KeyFld(N_Name, "string", <<>>, FALSE) >>
      [] t = "PtrEmbeds" -> << KeyFld(N_Name, "string", <<>>, FALSE), KeyFld(N_Base, "*Base", <<>>, TRUE) >>
      [] t = "User" -> [i \in 1..Len(UserFields) |->
                          KeyFld(UserFields[i].Name, UserFields[i].Type, UserFields[i].Tag.gorm, FALSE)]
      [] t = "Audit" -> [i \in 1..Len(AuditFields) |->
                          KeyFld(AuditFields[i].Name, AuditFields[i].Type, AuditFields[i].Tag.gorm, FALSE)]
      [] OTHER -> <<>>

\* reflect.Kind of a field type of the key types
KeyKind(t) ==
    IF t \in KeyStructTypes THEN "struct"
    ELSE IF t = "*Base" THEN "ptr"
    ELSE t

\* the types with a GetID() method, and what the method returns: type
\* Keyed returns its Code
KeyProviders == {"Keyed"}
GetID(v) == v[1]

EqualFold(a, b) == ToLower(a) = ToLower(b)

Contains(s, sub) ==
    \E i \in 1..(Len(s) + 1) :
        i + Len(sub) - 1 <= Len(s) /\ SubSeq(s, i, i + Len(sub) - 1) = sub

ErrPanicInterface ==
    <<Frame("panic: reflect.Value.Interface: cannot return value obtained from unexported field or method")>>
ErrKeyNotFound == <<Frame("primary key not found in %T")>>

\* "strings.EqualFold(field.Name, "id") || strings.Contains(tag, "primaryKey")"
IsKeyField(f) == EqualFold(f.Name, N_id) \/ Contains(f.gorm, T_pk)

\* "return field.Name, fieldVal.Interface()": Interface panics on a value
\* read from an unexported field
KeyOf(f, fv) ==
    IF IsUpperChar(f.Name[1]) THEN KeyResult(f.Name, AnyOf(fv), NoErr)
    ELSE KeyResult(<<>>, NilAny, ErrPanicInterface)

RECURSIVE KeyLoop(_, _, _)
\* after the recursion into an embedded struct: its key if it found one,
\* else the next field
KeyRest(val, typ, i, sub) ==
    IF sub.name # <<>> \/ sub.err # NoErr THEN sub ELSE KeyLoop(val, typ, i + 1)

KeyLoop(val, typ, i) ==
    IF i > Len(KeyFields(typ)) THEN NoKey
    ELSE IF IsKeyField(KeyFields(typ)[i]) THEN KeyOf(KeyFields(typ)[i], val[i])
    ELSE IF KeyFields(typ)[i].Anonymous /\ KeyKind(KeyFields(typ)[i].Type) = "struct"
    THEN KeyRest(val, typ, i, KeyLoop(val[i], KeyFields(typ)[i].Type, 1))
    ELSE KeyLoop(val, typ, i + 1)

findPrimaryKey(val, typ) == KeyLoop(val, typ, 1)

KeyFound(r) ==
    IF r.err # NoErr THEN r
    ELSE IF r.name # <<>> THEN r
    ELSE KeyResult(<<>>, NilAny, ErrKeyNotFound)

\* entity is a value of type typ or a pointer to one; either way the
\* struct val is what is searched
GetPrimaryKey(val, typ) ==
    IF typ \in KeyProviders THEN KeyResult(N_id, AnyOf(GetID(val)), NoErr)
    ELSE KeyFound(findPrimaryKey(val, typ))

RECURSIVE KeyValue(_, _)
\* an entity of type t whose integer fields hold distinct numbers from k on
KeyValue(t, k) ==
    [i \in 1..Len(KeyFields(t)) |->
        IF KeyKind(KeyFields(t)[i].Type) = "struct" THEN KeyValue(KeyFields(t)[i].Type, k + 10)
        ELSE IF KeyKind(KeyFields(t)[i].Type) = "ptr" THEN PtrTo(KeyValue("Base", k + 10))
        ELSE IF KeyFields(t)[i].Type = "int" THEN k + i
        ELSE "n"]

KeySeeds == 1..4

CallGetPrimaryKey ==
    /\ \E k \in KeySeeds :
          last' = [NoCall EXCEPT !.op = "GetPrimaryKey", !.ent = PtrTo(KeyValue(dto, k)),
                                 !.pk = GetPrimaryKey(KeyValue(dto, k), dto)]
    /\ UNCHANGED <<repos, table, dto, fld, calls>>

\* the same call with a pointer to the entity
CallGetPrimaryKeyOfPointer ==
    /\ \E k \in KeySeeds :
          last' = [NoCall EXCEPT !.op = "GetPrimaryKey", !.ent = PtrTo(KeyValue(dto, k)),
                                 !.flag = TRUE,
                                 !.pk = GetPrimaryKey(KeyValue(dto, k), dto)]
    /\ UNCHANGED <<repos, table, dto, fld, calls>>

KeysInit ==
    /\ repos = <<NewRepo(NewDB)>>
    /\ table = <<Row1, Row2>>
    /\ last = NoCall
    /\ dto \in KeyTypes
    /\ fld = DefaultField
    /\ calls = 0

KeysNext == CallGetPrimaryKey \/ CallGetPrimaryKeyOfPointer

SpecKeys == KeysInit /\ [][KeysNext]_vars

-----------------------------------------------------------------------------
(* The repository methods that resolve the entity's primary key, and the   *)
(* other deletes.  T is the repository's type parameter: User, unless the  *)
(* run draws another entity type.                                          *)

WriteEntityTypes == {"User", "Audit"}
T == IF dto \in WriteEntityTypes THEN dto ELSE EntityType

\* Updates(fields) on the rows with this key that the handle's conditions
\* match: a "name" entry of fields replaces the name
SetColumns(row, fields) ==
    IF \E c \in fields : c.col = "name"
    THEN [row EXCEPT ![2] = (CHOOSE c \in fields : c.col = "name").val]
    ELSE row

UpdateRows(rows, db, id, fields) ==
    [i \in 1..Len(rows) |->
        IF rows[i][1] = id /\ RowMatches(rows[i], db) THEN SetColumns(rows[i], fields)
        ELSE rows[i]]

UpdateFields(r, e, fields, fail) ==
    LET pk == GetPrimaryKey(e, T)
        err == IF pk.err # NoErr THEN pk.err ELSE EngineWriteErr(fail)
    IN /\ table' = IF err = NoErr THEN UpdateRows(table, repos[r].db, pk.value[1], fields)
                   ELSE table
       /\ Fluent("UpdateFields", r,
                 IF err # NoErr THEN [repos[r] EXCEPT !.lastError = err]
                 ELSE [repos[r] EXCEPT !.currentResult = PtrTo(e)], 1)
       /\ UNCHANGED <<dto, fld>>

DeleteEntity(r, e, fail) ==
    LET err == EngineWriteErr(fail)
    IN /\ table' = IF err = NoErr THEN DeleteRow(table, e[1]) ELSE table
       /\ Fluent("DeleteEntity", r,
                 IF err # NoErr THEN [repos[r] EXCEPT !.lastError = err] ELSE repos[r], 1)
       /\ UNCHANGED <<dto, fld>>

RECURSIVE DeleteAll(_, _)
DeleteAll(rows, es) ==
    IF es = <<>> THEN rows ELSE DeleteAll(DeleteRow(rows, Head(es)[1]), Tail(es))

DeleteBatch(r, es, fail) ==
    LET err == EngineWriteErr(fail)
    IN /\ table' = IF err = NoErr THEN DeleteAll(table, es.elems) ELSE table
       /\ Fluent("DeleteBatch", r,
                 IF err # NoErr THEN [repos[r] EXCEPT !.lastError = err] ELSE repos[r], 1)
       /\ UNCHANGED <<dto, fld>>

\* query.First(&createdEntity, "<pkName> = ?", pkValue): the first row with
\* this key that the handle's own conditions match, loaded with the
\* handle's preloads
Reload(db, rows, pkValue, fail) == EngineFirst(DBWhere(db, Cond("id", pkValue)), rows, fail)

\* the part the three methods share after the write: err is the write's
\* error, rows the table after the write, query the handle of the reload
Reloaded(op, r, e, args, err, rows, query, failReload) ==
    LET pk == GetPrimaryKey(e, T)
        res == Reload(query, rows, pk.value[1], failReload)
        rec == IF err # NoErr THEN [repos[r] EXCEPT !.lastError = err]
               ELSE IF pk.err # NoErr THEN [repos[r] EXCEPT !.currentResult = PtrTo(e)]
               ELSE IF res.err # NoErr THEN [repos[r] EXCEPT !.currentResult = PtrTo(e)]
               ELSE [repos[r] EXCEPT !.currentResult = PtrTo(res.ent)]
    IN /\ repos' = [repos EXCEPT ![r] = rec]
       /\ last' = [NoCall EXCEPT !.op = op, !.recv = r, !.ret = r, !.args = args,
                                 !.execs = IF err = NoErr /\ pk.err = NoErr THEN 2 ELSE 1]

\* a variant that records the failure of the reload in lastError
CreateWithPreloadRecording(r, e, associations, fail, failReload) ==
    LET err == EngineCreateErr(table, <<e>>, fail)
        rows == IF err = NoErr THEN InsertRow(table, e) ELSE table
        pk == GetPrimaryKey(e, T)
        res == Reload(DBPreloadAll(repos[r].db, associations), rows, pk.value[1], failReload)
        rec == IF err # NoErr THEN [repos[r] EXCEPT !.lastError = err]
               ELSE IF pk.err # NoErr THEN [repos[r] EXCEPT !.currentResult = PtrTo(e)]
               ELSE IF res.err # NoErr
               THEN [repos[r] EXCEPT !.currentResult = PtrTo(e), !.lastError = res.err]
               ELSE [repos[r] EXCEPT !.currentResult = PtrTo(res.ent)]
    IN /\ table' = rows
       /\ repos' = [repos EXCEPT ![r] = rec]
       /\ last' = [NoCall EXCEPT !.op = "CreateWithPreload", !.recv = r, !.ret = r,
                                 !.args = <<e, associations>>,
                                 !.execs = IF err = NoErr /\ pk.err = NoErr THEN 2 ELSE 1]
       /\ UNCHANGED <<dto, fld>>

CreateWithPreload(r, e, associations, fail, failReload) ==
    LET err == EngineCreateErr(table, <<e>>, fail)
        rows == IF err = NoErr THEN InsertRow(table, e) ELSE table
    IN /\ table' = rows
       /\ Reloaded("CreateWithPreload", r, e, <<e, associations>>, err, rows,
                   DBPreloadAll(repos[r].db, associations), failReload)
       /\ UNCHANGED <<dto, fld>>

\* Preload(clause.Associations) loads every association of the entity
AllAssociations == <<N_Profile, N_Orders>>

CreateWithAllAssociations(r, e, fail, failReload) ==
    LET err == EngineCreateErr(table, <<e>>, fail)
        rows == IF err = NoErr THEN InsertRow(table, e) ELSE table
    IN /\ table' = rows
       /\ Reloaded("CreateWithAllAssociations", r, e, <<e>>, err, rows,
                   DBPreloadAll(repos[r].db, AllAssociations), failReload)
       /\ UNCHANGED <<dto, fld>>

UpdateWithPreload(r, e, associations, fail, failReload) ==
    LET err == EngineWriteErr(fail)
        rows == IF err = NoErr THEN InsertRow(table, e) ELSE table
    IN /\ table' = rows
       /\ Reloaded("UpdateWithPreload", r, e, <<e, associations>>, err, rows,
                   DBPreloadAll(repos[r].db, associations), failReload)
       /\ UNCHANGED <<dto, fld>>

-----------------------------------------------------------------------------
(* Reload runs: one repository whose entity type T is User or the keyless  *)
(* Audit (dto holds T in these runs); callers create and update with a     *)
(* reload, narrow the handle with Where and read with FindOne; the write   *)
(* and the reload can each fail; at most MaxReloadCalls calls.             *)

MaxReloadCalls == 3

ReloadTick == calls < MaxReloadCalls /\ calls' = calls + 1

ReloadEntities == {Row4, Row1}
PreloadArgs == { <<>>, <<N_Profile>> }

ReloadCreateWithPreload ==
    ReloadTick /\ \E r \in Repos, e \in ReloadEntities, a \in PreloadArgs, fail \in BOOLEAN,
                     failReload \in BOOLEAN : CreateWithPreload(r, e, a, fail, failReload)
ReloadCreateWithAllAssociations ==
    ReloadTick /\ \E r \in Repos, e \in ReloadEntities, fail \in BOOLEAN, failReload \in BOOLEAN :
                     CreateWithAllAssociations(r, e, fail, failReload)
ReloadUpdateWithPreload ==
    ReloadTick /\ \E r \in Repos, e \in ReloadEntities, a \in PreloadArgs, fail \in BOOLEAN,
                     failReload \in BOOLEAN : UpdateWithPreload(r, e, a, fail, failReload)
ReloadWhere == ReloadTick /\ \E r \in Repos, c \in WhereConds : Where(r, c)
ReloadFindOne == ReloadTick /\ \E r \in Repos, f \in FilterMaps, fail \in BOOLEAN : FindOne(r, f, fail)

ReloadInit ==
    /\ repos = <<NewRepo(NewDB)>>
    /\ table = <<Row1, Row2>>
    /\ last = NoCall
    /\ dto \in WriteEntityTypes
    /\ fld = DefaultField
    /\ calls = 0

ReloadNext ==
    \/ ReloadCreateWithPreload \/ ReloadCreateWithAllAssociations \/ ReloadUpdateWithPreload
    \/ ReloadWhere \/ ReloadFindOne

SpecReload == ReloadInit /\ [][ReloadNext]_vars

-----------------------------------------------------------------------------
(* Write runs: one repository of User; callers write, delete and FindOne,  *)
(* with engine failures; at most MaxWriteCalls calls.                      *)

MaxWriteCalls == 3

WriteTick == calls < MaxWriteCalls /\ calls' = calls + 1

WriteEntities == {Row3, Row1}
WriteSlices == { SliceOf(<<Row4, Row3>>) }
DeleteSlices == { SliceOf(<<Row1>>), SliceOf(<<Row1, Row2>>) }
UpdateMaps == { {Cond("name", "Zed")} }

WriteCreate == WriteTick /\ \E r \in Repos, e \in WriteEntities, fail \in BOOLEAN : Create(r, e, fail)
WriteCreateBatch ==
    WriteTick /\ \E r \in Repos, es \in WriteSlices, fail \in BOOLEAN : CreateBatch(r, es, fail)
WriteUpdate == WriteTick /\ \E r \in Repos, e \in WriteEntities, fail \in BOOLEAN : Update(r, e, fail)
WriteUpdateFields ==
    WriteTick /\ \E r \in Repos, e \in WriteEntities, m \in UpdateMaps, fail \in BOOLEAN :
                    UpdateFields(r, e, m, fail)
WriteDelete == WriteTick /\ \E r \in Repos, id \in DeleteIds, fail \in BOOLEAN : Delete(r, id, fail)
WriteDeleteEntity ==
    WriteTick /\ \E r \in Repos, e \in WriteEntities, fail \in BOOLEAN : DeleteEntity(r, e, fail)
WriteDeleteBatch ==
    WriteTick /\ \E r \in Repos, es \in DeleteSlices, fail \in BOOLEAN : DeleteBatch(r, es, fail)
WriteFindOne == WriteTick /\ \E r \in Repos, f \in FilterMaps, fail \in BOOLEAN : FindOne(r, f, fail)

WritesInit ==
    /\ repos = <<NewRepo(NewDB)>>
    /\ table = <<Row1, Row2>>
    /\ last = NoCall
    /\ dto = "UserBasic"
    /\ fld = DefaultField
    /\ calls = 0

WritesNext ==
    \/ WriteCreate \/ WriteCreateBatch \/ WriteUpdate \/ WriteUpdateFields
    \/ WriteDelete \/ WriteDeleteEntity \/ WriteDeleteBatch \/ WriteFindOne

SpecWrites == WritesInit /\ [][WritesNext]_vars

-----------------------------------------------------------------------------
(* Chain runs: one repository over a table of three rows on which callers  *)
(* execute one terminal read after another: FindOne with a filter map,     *)
(* One, First and Get; at most MaxChainCalls calls.                        *)

MaxChainCalls == 3

ChainTick == calls < MaxChainCalls /\ calls' = calls + 1

ChainFilters == { {}, {Cond("id", 1)}, {Cond("name", "Bob")} }

ChainFindOne == ChainTick /\ \E r \in Repos, f \in ChainFilters, fail \in BOOLEAN : FindOne(r, f, fail)
ChainOne == ChainTick /\ \E r \in Repos, fail \in BOOLEAN : One(r, fail)
ChainFirst == ChainTick /\ \E r \in Repos, fail \in BOOLEAN : First(r, fail)
ChainGet == ChainTick /\ \E r \in Repos, fail \in BOOLEAN : Get(r, fail)

ChainInit ==
    /\ repos = <<NewRepo(NewDB)>>
    /\ table = <<Row1, Row2, Row3>>
    /\ last = NoCall
    /\ dto = "UserBasic"
    /\ fld = DefaultField
    /\ calls = 0

ChainNext == ChainFindOne \/ ChainOne \/ ChainFirst \/ ChainGet

SpecChain == ChainInit /\ [][ChainNext]_vars

-----------------------------------------------------------------------------
(* Scope runs: callers obtain repositories with WithDB, Transaction and    *)
(* the context-scoped methods and go on calling methods on any repository  *)
(* obtained so far, in any interleaving; at most MaxScopeCalls calls.      *)

MaxScopeCalls == 3

ScopeTick == calls < MaxScopeCalls /\ calls' = calls + 1

\* another handle to hand to WithDB
ReplicaDB == [NewDB EXCEPT !.conn = "replica"]

TxFns == { TxFn(<<>>, "nil"), TxFn(<<Row3>>, "nil"), TxFn(<<Row3>>, "own"),
           TxFn(<<Row3, Row1>>, "propagate"), TxFn(<<Row3, Row1>>, "nil") }
ContextIds == {2}

ScopeWithDB == ScopeTick /\ \E r \in Repos : WithDB(r, ReplicaDB)
ScopeTransaction == ScopeTick /\ \E r \in Repos, fn \in TxFns : Transaction(r, fn)
ScopeCreateWithContext ==
    ScopeTick /\ \E r \in Repos, e \in NewEntities, fail \in BOOLEAN : CreateWithContext(r, e, fail)
ScopeFindByIDWithContext == ScopeTick /\ \E r \in Repos, id \in ContextIds : FindByIDWithContext(r, id)
ScopeCreate == ScopeTick /\ \E r \in Repos, e \in NewEntities, fail \in BOOLEAN : Create(r, e, fail)
ScopeWhere == ScopeTick /\ \E r \in Repos, c \in WhereConds : Where(r, c)
ScopeProjectToDTO == ScopeTick /\ \E r \in Repos, d \in RepoDTOs : ProjectToDTO(r, d)

ScopeInit ==
    /\ repos = <<NewRepo(NewDB)>>
    /\ table = <<Row1, Row2>>
    /\ last = NoCall
    /\ dto = "UserBasic"
    /\ fld = DefaultField
    /\ calls = 0

ScopeNext ==
    \/ ScopeWithDB \/ ScopeTransaction \/ ScopeCreateWithContext \/ ScopeFindByIDWithContext
    \/ ScopeCreate \/ ScopeWhere \/ ScopeProjectToDTO

SpecScope == ScopeInit /\ [][ScopeNext]_vars

-----------------------------------------------------------------------------
(* Query runs: one repository over a table of three rows; callers build a  *)
(* query with Where, Limit, Offset and Paginate and execute it with the    *)
(* terminal reads and with Count and Exists.                               *)

QueryFilters == { {}, {Cond("id", 1)} }
OffsetArgs == {1}
PageArgs == {0 - 1, 0, 1, 2, 30000}
PageSizeArgs == {2, 20}

DoOffset == Tick /\ \E r \in Repos, n \in OffsetArgs : Offset(r, n)
DoPaginate == Tick /\ \E r \in Repos, page \in PageArgs, pageSize \in PageSizeArgs :
                        Paginate(r, page, pageSize)
DoCount == Tick /\ \E r \in Repos, f \in QueryFilters, fail \in BOOLEAN : Count(r, f, fail)
DoExists == Tick /\ \E r \in Repos, f \in QueryFilters, fail \in BOOLEAN : Exists(r, f, fail)

QueryInit ==
    /\ repos = <<NewRepo(NewDB)>>
    /\ table = <<Row1, Row2, Row3>>
    /\ last = NoCall
    /\ dto = "UserBasic"
    /\ fld = DefaultField
    /\ calls = 0

QueryNext ==
    \/ DoWhere \/ DoLimit \/ DoOffset \/ DoPaginate
    \/ DoCount \/ DoExists
    \/ DoFirst \/ DoOne \/ DoGet

SpecQuery == QueryInit /\ [][QueryNext]_vars

-----------------------------------------------------------------------------
(* Properties of the repository run (Spec).                                *)

TerminalReads == {"First", "One", "Get"}

\* C1: after a terminal read (First or One for a single row, Get for a
\* collection) the receiver's result slot (currentResult for First/One,
\* currentSlice for Get) holds the result that was returned, an execution
\* error of the call is stored in lastError, and the query was executed
\* exactly once.
C1_TerminalReadStoresResult ==
    last.op \in TerminalReads =>
        /\ last.execs = 1
        /\ last.err # NoErr => repos[last.recv].lastError = last.err
        /\ last.err = NoErr /\ last.op \in {"First", "One"} =>
              repos[last.recv].currentResult = last.ent
        /\ last.err = NoErr /\ last.op = "Get" =>
              repos[last.recv].currentSlice = last.list

\* the copy a ProjectToDTO call just returned holds the receiver's slots
CopyInherits ==
    last.op = "ProjectToDTO" =>
        /\ repos[last.ret].currentResult = repos[last.recv].currentResult
        /\ repos[last.ret].currentSlice = repos[last.recv].currentSlice
        /\ repos[last.ret].lastError = repos[last.recv].lastError

\* Project called on the copy right after ProjectToDTO, the receiver
\* holding the entity a read stored
ProjectAfterCopy ==
    /\ last.op = "ProjectToDTO"
    /\ repos[last.recv].currentResult # NilPtr
    /\ last'.op = "Project"
    /\ last'.recv = last.ret

\* C2: the copy n returned by r.ProjectToDTO(d) has n.currentResult =
\* r.currentResult, n.currentSlice = r.currentSlice and n.lastError =
\* r.lastError, in every reachable state r and for every DTO type d; hence
\* Project on a copy configured after a read maps exactly the entity that
\* the read stored in the receiver.
C2_CopyInheritsResult ==
    [][ /\ CopyInherits'
        /\ ProjectAfterCopy =>
              /\ last'.out = mapEntityToDTO(repos[last.recv].currentResult,
                                            repos[last.ret].projection).val
              /\ last'.err = mapEntityToDTO(repos[last.recv].currentResult,
                                            repos[last.ret].projection).err ]_vars

\* a copy made after a read projected the entity the read stored
C2_Witness ==
    /\ last.op = "Project"
    /\ last.recv > 1
    /\ repos[last.recv].projection # NoProjection
    /\ repos[last.recv].currentResult # NilPtr
    /\ repos[last.recv].currentResult = repos[1].currentResult
    /\ last.err = NoErr
    /\ last.out = mapEntityToDTO(repos[1].currentResult, repos[last.recv].projection).val

\* C3: ProjectToDTO leaves every field of its receiver (and of every other
\* repository) unchanged, and any other call changes no field of any
\* repository but its own receiver: an operation on the copy never changes
\* the receiver, nor one on the receiver the copy.
C3_CopyIsolated ==
    [][ /\ Len(repos') >= Len(repos)
        /\ \A i \in 1..Len(repos) :
              (last'.op = "ProjectToDTO" \/ last'.recv # i) => repos'[i] = repos[i] ]_vars

\* a query-building call on a copy changed the copy and not its receiver
C3_Witness ==
    /\ Len(repos) >= 2
    /\ last.op = "Where"
    /\ last.recv = 2
    /\ repos[2].projection # NoProjection
    /\ repos[2].db.wheres # {}
    /\ repos[1].db.wheres = {}

\* ProjectSlice called right after FindAll on a repository with a
\* projection and no stored error
ProjectSliceAfterFindAll ==
    /\ last.op = "FindAll"
    /\ repos[last.recv].projection # NoProjection
    /\ repos[last.recv].lastError = NoErr
    /\ last'.op = "ProjectSlice"
    /\ last'.recv = last.recv

\* C4: in the chain ProjectToDTO(dto).FindAll().ProjectSlice(), when the
\* query succeeds, ProjectSlice returns a nil error and the DTO slice of
\* the rows matching the accumulated query.
C4_FindAllThenProjectSlice ==
    [][ ProjectSliceAfterFindAll =>
           /\ last'.err = NoErr
           /\ last'.out =
                ProjectEntitySliceResult(
                    PtrTo(EngineFind(repos[last.recv].db, table, FALSE).list),
                    repos[last.recv].projection).val ]_vars

ErrorReturning ==
    {"First", "Get", "One", "Project", "ProjectSlice", "Error", "Result", "Results", "Execute"}

\* C5: while a repository's lastError holds the error of a failed engine
\* operation, every terminal or accessor method called on it (First, Get,
\* One, Project, ProjectSlice, Error, Result, Results, Execute) returns
\* that error.
C5_StoredErrorReturned ==
    (last.op \in ErrorReturning /\ repos[last.recv].lastError # NoErr) =>
        last.err = repos[last.recv].lastError

-----------------------------------------------------------------------------
(* Properties of the projection run (SpecProjection).                      *)

\* what a ProjectToDTO call added to the query of the copy it returned
AddedPreloads ==
    SubSeq(repos[last.ret].db.preloads, Len(repos[last.recv].db.preloads) + 1,
           Len(repos[last.ret].db.preloads))
AddedSelects ==
    SubSeq(repos[last.ret].db.selects, Len(repos[last.recv].db.selects) + 1,
           Len(repos[last.ret].db.selects))

\* the copy's query is the receiver's query with something appended
QueryExtended ==
    /\ repos[last.ret].db.wheres = repos[last.recv].db.wheres
    /\ repos[last.ret].db.limit = repos[last.recv].db.limit
    /\ Len(repos[last.ret].db.preloads) >= Len(repos[last.recv].db.preloads)
    /\ Len(repos[last.ret].db.selects) >= Len(repos[last.recv].db.selects)
    /\ SubSeq(repos[last.ret].db.preloads, 1, Len(repos[last.recv].db.preloads))
          = repos[last.recv].db.preloads
    /\ SubSeq(repos[last.ret].db.selects, 1, Len(repos[last.recv].db.selects))
          = repos[last.recv].db.selects

\* C6 as stated: ProjectToDTO applies exactly one of two configurations:
\* with at least one association, one Preload per association name and no
\* Select; with no association, no Preload and a single Select of the
\* comma-joined column names.
C6_ExactlyOneConfiguration ==
    last.op = "ProjectToDTO" =>
        /\ QueryExtended
        /\ IF extractPreloadsFromDTO(repos[last.ret].projection) # <<>>
           THEN /\ AddedPreloads = extractPreloadsFromDTO(repos[last.ret].projection)
                /\ AddedSelects = <<>>
           ELSE /\ AddedPreloads = <<>>
                /\ AddedSelects =
                     <<Join(createProjectionFromDTO(repos[last.ret].projection), CommaSpace)>>

\* C6: ProjectToDTO applies at most one of two configurations, never both:
\* with at least one association, one Preload per association name and no
\* Select; with no association, no Preload, and a single Select of the
\* comma-joined column names when there is at least one column, nothing
\* when there is none.
C6_AtMostOneConfiguration ==
    last.op = "ProjectToDTO" =>
        /\ QueryExtended
        /\ IF extractPreloadsFromDTO(repos[last.ret].projection) # <<>>
           THEN /\ AddedPreloads = extractPreloadsFromDTO(repos[last.ret].projection)
                /\ AddedSelects = <<>>
           ELSE /\ AddedPreloads = <<>>
                /\ AddedSelects =
                     IF createProjectionFromDTO(repos[last.ret].projection) # <<>>
                     THEN <<Join(createProjectionFromDTO(repos[last.ret].projection),
                                 CommaSpace)>>
                     ELSE <<>>

\* a DTO type with neither association nor column got a copy whose query
\* is the receiver's
C6_Witness ==
    /\ last.op = "ProjectToDTO"
    /\ extractPreloadsFromDTO(repos[last.ret].projection) = <<>>
    /\ createProjectionFromDTO(repos[last.ret].projection) = <<>>
    /\ repos[last.ret].db = repos[last.recv].db

\* a composite field: any field that is not of a basic kind, a pointer
\* being looked at through its pointee
IsCompositeField(f) == ~isBasicType(DerefType(f.Type))

CompositeExported(d) ==
    {i \in 1..Len(StructFields(d)) :
        IsExported(StructFields(d)[i]) /\ IsCompositeField(StructFields(d)[i])}

BasicExported(d) ==
    {i \in 1..Len(StructFields(d)) :
        IsExported(StructFields(d)[i]) /\ ~IsCompositeField(StructFields(d)[i])}

HasCompositeField(d) ==
    \E i \in 1..Len(StructFields(d)) : IsCompositeField(StructFields(d)[i])

\* C7: for a DTO type with at least one composite field, the association
\* list of extractPreloadsFromDTO has as many names as the type has
\* composite exported fields, and the column list of
\* createProjectionFromDTO has one name per basic exported field and none
\* from a composite or an unexported field.
C7_ShapeCountsCompositeFields ==
    HasCompositeField(dto) =>
        /\ last.op = "extractPreloadsFromDTO" =>
              Len(last.names) = Cardinality(CompositeExported(dto))
        /\ last.op = "createProjectionFromDTO" =>
              Len(last.names) = Cardinality(BasicExported(dto))

\* the entity field a DTO field is named after
EntityFieldNamed(name) ==
    CHOOSE j \in 1..Len(StructFields(EntityType)) : StructFields(EntityType)[j].Name = name

\* the DTO type's fields are a subset, by exact name and with identical
\* types, of the entity's fields
IsSubsetDTO(d) ==
    \A i \in 1..Len(StructFields(d)) :
        \E j \in 1..Len(StructFields(EntityType)) :
            /\ StructFields(EntityType)[j].Name = StructFields(d)[i].Name
            /\ StructFields(EntityType)[j].Type = StructFields(d)[i].Type

MappedSubset == last.op = "mapEntityToDTO" /\ last.ent # NilPtr /\ IsSubsetDTO(dto)

\* C9 as stated: for a DTO type whose fields are a subset, by exact name
\* and with identical types, of the entity's fields, mapEntityToDTO returns
\* a DTO in which every field equals the same-named field of the entity.
C9_EveryFieldCopied ==
    MappedSubset =>
        /\ last.err = NoErr
        /\ last.out # NilPtr
        /\ \A i \in 1..Len(StructFields(dto)) :
              last.out[1][i] = last.ent[1][EntityFieldNamed(StructFields(dto)[i].Name)]

\* C9: for a DTO type whose fields are a subset, by exact name and with
\* identical types, of the entity's fields, mapEntityToDTO returns a DTO in
\* which every exported field equals the same-named field of the entity
\* and every unexported field keeps its zero value.
C9_ExportedFieldsCopied ==
    MappedSubset =>
        /\ last.err = NoErr
        /\ last.out # NilPtr
        /\ \A i \in 1..Len(StructFields(dto)) :
              IF IsExported(StructFields(dto)[i])
              THEN last.out[1][i] =
                      last.ent[1][EntityFieldNamed(StructFields(dto)[i].Name)]
              ELSE last.out[1][i] = Zero(StructFields(dto)[i].Type)

\* an entity was mapped to a subset DTO with an unexported field, which
\* stayed zero while the entity's field of that name is not
C9_Witness ==
    /\ MappedSubset
    /\ last.err = NoErr
    /\ \E i \in 1..Len(StructFields(dto)) :
          /\ ~IsExported(StructFields(dto)[i])
          /\ last.out[1][i] = Zero(StructFields(dto)[i].Type)
          /\ last.out[1][i] # last.ent[1][EntityFieldNamed(StructFields(dto)[i].Name)]
    /\ \E i \in 1..Len(StructFields(dto)) :
          /\ IsExported(StructFields(dto)[i])
          /\ last.out[1][i] = last.ent[1][EntityFieldNamed(StructFields(dto)[i].Name)]

\* the DTO type a slice projection converts to
SliceDTO == IF last.op = "ProjectSlice" THEN repos[last.recv].projection ELSE dto

\* C10: ProjectEntitySlice and ProjectSlice preserve length and order: the
\* result of a conversion without error is a non-nil slice with one DTO
\* per entity of the input collection, the i-th being mapEntityToDTO of
\* the i-th entity; an empty input collection gives an empty non-nil slice
\* and a nil error.
C10_SliceProjectionPreservesOrder ==
    /\ (last.op \in {"ProjectEntitySlice", "ProjectSlice"} /\ last.err = NoErr) =>
          /\ last.list # NilPtr
          /\ last.out # NilPtr
          /\ ~last.out[1].isnil
          /\ Len(last.out[1].elems) = Len(last.list[1].elems)
          /\ \A i \in 1..Len(last.list[1].elems) :
                last.out[1].elems[i] =
                    mapEntityToDTO(PtrTo(last.list[1].elems[i]), SliceDTO).val[1]
    /\ (last.op = "ProjectEntitySlice" /\ last.list # NilPtr
            /\ last.list[1].elems = <<>>) => last.err = NoErr
    /\ (last.op = "ProjectSlice" /\ last.list # NilPtr /\ last.list[1].elems = <<>>
            /\ repos[last.recv].lastError = NoErr
            /\ repos[last.recv].projection # NoProjection) => last.err = NoErr

\* ProjectSlice converted a stored collection of two entities to two
\* different DTOs
C10_Witness ==
    /\ last.op = "ProjectSlice"
    /\ last.err = NoErr
    /\ Len(last.list[1].elems) = 2
    /\ Len(last.out[1].elems) = 2
    /\ last.out[1].elems[1] # last.out[1].elems[2]

\* a slice projection that got as far as converting the elements
SliceConverted ==
    /\ last.op \in {"ProjectEntitySlice", "ProjectSlice"}
    /\ last.list # NilPtr
    /\ last.op = "ProjectSlice" =>
          /\ repos[last.recv].lastError = NoErr
          /\ repos[last.recv].projection # NoProjection

\* the positions (from 1) of the input elements whose mapping fails
FailingElements ==
    {i \in 1..Len(last.list[1].elems) :
        mapEntityToDTO(PtrTo(last.list[1].elems[i]), SliceDTO).err # NoErr}

\* the slice indexes an error's messages name
ErrorIndexes(e) == {e[k].index : k \in 1..Len(e)} \ {NoIndex}

\* C11: when mapping a collection of entities to DTOs, a mapping failure
\* on an element aborts the whole operation: no slice is returned, and the
\* returned error names the index of the first offending element (counted
\* from 0 or from 1).
C11_FailureNamesElement ==
    (SliceConverted /\ FailingElements # {}) =>
        /\ last.out = NilPtr
        /\ last.err # NoErr
        /\ \E i \in FailingElements :
              /\ \A j \in FailingElements : i <= j
              /\ ErrorIndexes(last.err) \cap {i - 1, i} # {}

\* a source type that is neither convertible to the destination type nor
\* covered by the struct, pointer-to-struct or slice case
Uncovered(st, dt) ==
    /\ ~ConvertibleTo(st, dt)
    /\ ~(Kind(st) = "struct" /\ Kind(dt) = "struct")
    /\ ~(Kind(st) = "ptr" /\ Kind(dt) = "struct" /\ Kind(Elem(st)) = "struct")
    /\ ~(Kind(st) = "slice" /\ Kind(dt) = "slice")

\* field i of DTO type d has no resolvable source field in the entity, or
\* one of an uncovered type
LeftUnmapped(d, i) ==
    IF SourceField(EntityType, d, i) = 0 THEN TRUE
    ELSE Uncovered(StructFields(EntityType)[SourceField(EntityType, d, i)].Type,
                   StructFields(d)[i].Type)

\* C12: mapping is best-effort and silent: for a non-nil entity and any DTO
\* type mapEntityToDTO returns a nil error and a DTO in which every field
\* without a resolvable source, or with a source that is neither
\* convertible nor covered by the struct/pointer/slice cases, has its zero
\* value; the only error of mapEntityToDTO and ProjectEntity is "entity
\* cannot be nil".
C12_MappingIsSilent ==
    /\ (last.op = "mapEntityToDTO" /\ last.ent # NilPtr) =>
          /\ last.err = NoErr
          /\ last.out # NilPtr
          /\ \A i \in 1..Len(StructFields(dto)) :
                LeftUnmapped(dto, i) => last.out[1][i] = Zero(StructFields(dto)[i].Type)
    /\ last.op \in {"mapEntityToDTO", "ProjectEntity"} => last.err \in {NoErr, ErrEntityNil}

\* the exported fields of DTO type d that are basic when a pointer is
\* classified by its pointee, in declaration order
BasicByPointee(d) ==
    LET keep(f) == IsExported(f) /\ isBasicType(DerefType(f.Type))
    IN SelectSeq(StructFields(d), keep)

\* C19: in the projection shape a DTO field of pointer type is classified
\* by its pointee: a pointer-to-basic field contributes its column name to
\* the column list exactly as a basic field does, and a pointer-to-struct
\* field contributes its association name to the association list.
C19_PointerClassifiedByPointee ==
    /\ last.op = "createProjectionFromDTO" =>
          last.names = [i \in 1..Len(BasicByPointee(dto)) |->
                            getColumnNameFromDTO(BasicByPointee(dto)[i])]
    /\ last.op = "extractPreloadsFromDTO" =>
          \A i \in 1..Len(StructFields(dto)) :
              (/\ Kind(StructFields(dto)[i].Type) = "ptr"
               /\ Kind(Elem(StructFields(dto)[i].Type)) = "struct") =>
                  \E k \in 1..Len(last.names) :
                      last.names[k] = PreloadName(StructFields(dto)[i])

\* the first entity field, in declaration order, whose column name
\* (getColumnName) equals the name the full resolver (getColumnNameFromDTO)
\* gives field i of DTO type d; 0 when there is none
ResolvedSource(d, i) ==
    FieldByColumn(EntityType, getColumnNameFromDTO(StructFields(d)[i]))

\* C20: in mapEntityToDTO an exported DTO field with no same-named entity
\* field is filled from the first entity field, in declaration order,
\* whose column name equals the DTO field's name under the full resolver
\* (projection tag, gorm column: clause, json tag, snake case), when the
\* types are identical.
C20_FallbackUsesFullResolver ==
    (last.op = "mapEntityToDTO" /\ last.ent # NilPtr /\ last.err = NoErr) =>
        \A i \in 1..Len(StructFields(dto)) :
            (/\ IsExported(StructFields(dto)[i])
             /\ FieldByName(EntityType, StructFields(dto)[i].Name) = 0
             /\ ResolvedSource(dto, i) # 0
             /\ IsExported(StructFields(EntityType)[ResolvedSource(dto, i)])
             /\ StructFields(EntityType)[ResolvedSource(dto, i)].Type
                   = StructFields(dto)[i].Type) =>
                last.out[1][i] = last.ent[1][ResolvedSource(dto, i)]

\* struct type dt has basic fields only
BasicOnly(dt) == \A j \in 1..Len(StructFields(dt)) : isBasicType(StructFields(dt)[j].Type)

\* the struct of type dt that mapping struct sv of type st sub-field by
\* sub-field gives, for dt with basic fields only: each exported sub-field
\* holds the value of the source sub-field of its name, else of its column
\* name, when there is one of its type, and is zero otherwise
StructMapping(sv, st, dt) ==
    [j \in 1..Len(StructFields(dt)) |->
        IF /\ IsExported(StructFields(dt)[j])
           /\ SourceField(st, dt, j) # 0
           /\ IsExported(StructFields(st)[SourceField(st, dt, j)])
           /\ StructFields(st)[SourceField(st, dt, j)].Type = StructFields(dt)[j].Type
        THEN sv[SourceField(st, dt, j)]
        ELSE Zero(StructFields(dt)[j].Type)]

\* field i of the DTO type is a struct filled from a pointer-to-struct
\* field of the entity; field i is a slice of structs filled from a slice
\* of structs
StructFromPointer(d, i) ==
    /\ IsExported(StructFields(d)[i])
    /\ Kind(StructFields(d)[i].Type) = "struct"
    /\ BasicOnly(StructFields(d)[i].Type)
    /\ SourceField(EntityType, d, i) # 0
    /\ Kind(StructFields(EntityType)[SourceField(EntityType, d, i)].Type) = "ptr"
    /\ Kind(Elem(StructFields(EntityType)[SourceField(EntityType, d, i)].Type)) = "struct"

SliceFromSlice(d, i) ==
    /\ IsExported(StructFields(d)[i])
    /\ Kind(StructFields(d)[i].Type) = "slice"
    /\ Kind(Elem(StructFields(d)[i].Type)) = "struct"
    /\ BasicOnly(Elem(StructFields(d)[i].Type))
    /\ SourceField(EntityType, d, i) # 0
    /\ Kind(StructFields(EntityType)[SourceField(EntityType, d, i)].Type) = "slice"
    /\ Kind(Elem(StructFields(EntityType)[SourceField(EntityType, d, i)].Type)) = "struct"

\* C21: composite fields are mapped recursively.  After a successful
\* mapEntityToDTO a struct DTO field filled from a pointer-to-struct entity
\* field is zero when the pointer is nil and otherwise the sub-field by
\* sub-field mapping of the pointed-to struct; a slice-of-struct DTO field
\* filled from a slice-of-struct entity field has the source's length and
\* its i-th element is the struct mapping of the i-th source element.
C21_CompositeFieldsMappedRecursively ==
    (last.op = "mapEntityToDTO" /\ last.ent # NilPtr /\ last.err = NoErr) =>
        \A i \in 1..Len(StructFields(dto)) :
            LET j == SourceField(EntityType, dto, i)
                st == StructFields(EntityType)[j].Type
                dt == StructFields(dto)[i].Type
                sv == last.ent[1][j]
                dv == last.out[1][i]
            IN /\ StructFromPointer(dto, i) =>
                     dv = (IF sv = NilPtr THEN Zero(dt) ELSE StructMapping(sv[1], Elem(st), dt))
               /\ SliceFromSlice(dto, i) =>
                     /\ Len(dv.elems) = Len(sv.elems)
                     /\ \A k \in 1..Len(sv.elems) :
                           dv.elems[k] = StructMapping(sv.elems[k], Elem(st), Elem(dt))

\* an entity with a profile and two orders was mapped to a DTO whose
\* profile is a struct of another type and whose orders are a slice of
\* structs of another type
C21_Witness ==
    /\ last.op = "mapEntityToDTO"
    /\ last.ent = PtrTo(Row1)
    /\ last.err = NoErr
    /\ \E i \in 1..Len(StructFields(dto)) :
          StructFromPointer(dto, i) /\ last.out[1][i] # Zero(StructFields(dto)[i].Type)
    /\ \E i \in 1..Len(StructFields(dto)) :
          /\ SliceFromSlice(dto, i)
          /\ StructFields(dto)[i].Type # "[]Order"
          /\ Len(last.out[1][i].elems) = 2

-----------------------------------------------------------------------------
(* More properties of the repository run (Spec).                           *)

\* C24: lastError is monotone on a repository instance.  No call sets a
\* non-nil lastError of an existing instance back to nil; a Create or
\* Update that writes its row stores its entity in currentResult and
\* leaves lastError as it was, and a FindOne that stores a new result
\* does the same; HasError() answers whether lastError is non-nil and
\* Result() returns currentResult together with lastError.
C24_LastErrorMonotone ==
    [][/\ \A i \in 1..Len(repos) : repos[i].lastError # NoErr => repos'[i].lastError # NoErr
       /\ (last'.op \in {"Create", "Update"} /\ table' # table) =>
             /\ repos'[last'.recv].currentResult # NilPtr
             /\ repos'[last'.recv].lastError = repos[last'.recv].lastError
       /\ (/\ last'.op = "FindOne" /\ calls' = calls + 1
           /\ repos'[last'.recv].currentResult # repos[last'.recv].currentResult) =>
             repos'[last'.recv].lastError = repos[last'.recv].lastError
       /\ (last'.op = "HasError" /\ calls' = calls + 1) =>
             last'.flag = (repos[last'.recv].lastError # NoErr)
       /\ (last'.op = "Result" /\ calls' = calls + 1) =>
             /\ last'.ent = repos[last'.recv].currentResult
             /\ last'.err = repos[last'.recv].lastError]_vars

\* a Create has just succeeded on an instance holding the error of an
\* earlier failed FindOne: the entity is stored and the error is still there
C24_Witness ==
    /\ last.op = "Create"
    /\ repos[last.recv].currentResult = PtrTo(Row3)
    /\ repos[last.recv].lastError = ErrRecordNotFound
    /\ HasRow(table, 3)

\* C26: Project and ProjectSlice treat a stored error differently.
\* ProjectSlice returns lastError whenever it is non-nil, whatever the
\* collection slot and the projection hold; Project never consults
\* lastError: on an instance with a projection and a stored result it
\* returns the DTO of that result with a nil error, also when lastError
\* holds the error of a later failed FindOne.
C26_ProjectIgnoresStoredError ==
    /\ (last.op = "ProjectSlice" /\ repos[last.recv].lastError # NoErr) =>
          /\ last.err = repos[last.recv].lastError
          /\ last.out = NilPtr
    /\ (/\ last.op = "Project"
        /\ repos[last.recv].projection # NoProjection
        /\ repos[last.recv].currentResult # NilPtr) =>
          /\ last.err = NoErr
          /\ last.out # NilPtr
          /\ last.out = mapEntityToDTO(repos[last.recv].currentResult,
                                       repos[last.recv].projection).val

\* Project has just returned the DTO of the row an earlier FindOne stored,
\* on a projected instance whose later FindOne (id = 9) found nothing
C26_Witness ==
    /\ last.op = "Project"
    /\ last.err = NoErr
    /\ last.out # NilPtr
    /\ repos[last.recv].projection # NoProjection
    /\ repos[last.recv].currentResult # NilPtr
    /\ repos[last.recv].currentResult[1][1] = Row1[1]
    /\ repos[last.recv].lastError = ErrRecordNotFound
    /\ Cond("id", 9) \in repos[last.recv].db.wheres

-----------------------------------------------------------------------------
(* Properties of the write runs (SpecWrites).                              *)

\* the step is a call on r of a write or a FindOne whose engine call fails
FailingCall(r) ==
    \/ \E e \in WriteEntities, f \in BOOLEAN :
          EngineCreateErr(table, <<e>>, f) # NoErr /\ Create(r, e, f)
    \/ \E es \in WriteSlices, f \in BOOLEAN :
          EngineCreateErr(table, es.elems, f) # NoErr /\ CreateBatch(r, es, f)
    \/ \E e \in WriteEntities : Update(r, e, TRUE)
    \/ \E e \in WriteEntities, m \in UpdateMaps : UpdateFields(r, e, m, TRUE)
    \/ \E id \in DeleteIds : Delete(r, id, TRUE)
    \/ \E e \in WriteEntities : DeleteEntity(r, e, TRUE)
    \/ \E es \in DeleteSlices : DeleteBatch(r, es, TRUE)

FailingFindOne(r) ==
    \E m \in FilterMaps, f \in BOOLEAN :
        EngineFirst(DBWhereAll(repos[r].db, m), table, f).err # NoErr /\ FindOne(r, m, f)

DeleteOps == {"Delete", "DeleteEntity", "DeleteBatch"}

\* C25: a failing write or read leaves the result slots untouched.  When
\* Create, CreateBatch, Update, UpdateFields, Delete, DeleteEntity or
\* DeleteBatch fails, the receiver changes in lastError only, which becomes
\* non-nil; when FindOne fails, currentResult, currentSlice and the
\* projection are kept and lastError becomes non-nil; and no delete changes
\* a result slot, whether it fails or succeeds.
C25_FailureKeepsResultSlots ==
    [][\A r \in 1..Len(repos) :
          /\ FailingCall(r) =>
                /\ repos'[r].lastError # NoErr
                /\ repos' = [repos EXCEPT ![r].lastError = repos'[r].lastError]
          /\ FailingFindOne(r) =>
                /\ repos'[r].lastError # NoErr
                /\ repos' = [repos EXCEPT ![r].lastError = repos'[r].lastError,
                                          ![r].db = repos'[r].db]
          /\ (last'.op \in DeleteOps /\ last'.recv = r /\ calls' = calls + 1) =>
                /\ repos'[r].currentResult = repos[r].currentResult
                /\ repos'[r].currentSlice = repos[r].currentSlice]_vars

\* an Update has just failed on an instance holding the slice of an
\* earlier CreateBatch: the slice is still there and no result was stored
C25_Witness ==
    /\ last.op = "Update"
    /\ repos[last.recv].lastError = ErrEngine
    /\ repos[last.recv].currentResult = NilPtr
    /\ repos[last.recv].currentSlice # NilPtr

-----------------------------------------------------------------------------
(* Properties of the query runs (SpecQuery).                               *)

\* the number of stored rows matching the filters of the last call alone
FilterCount == Len(MatchingRows(DBWhereAll(NewDB, last.filters), table))

\* C13: Count(filters) and Exists(filters) run against a model-only base
\* query: whatever the repository has accumulated, a Count that succeeds
\* returns the number of rows matching the passed filters alone, and an
\* Exists that succeeds returns whether that number is positive.
C13_CountOverPassedFiltersOnly ==
    /\ (last.op = "Count" /\ last.err = NoErr) => last.count = FilterCount
    /\ (last.op = "Exists" /\ last.err = NoErr) => last.flag = (FilterCount > 0)

\* the rows the receiver's query matches, past its offset
RowsMatching(r) == Skipped(MatchingRows(repos[r].db, table), repos[r].db.offset)

-----------------------------------------------------------------------------
(* Properties of the reload runs (SpecReload).                             *)

\* the step is a call on r with entity e whose write succeeds
WriteSucceeds(r, e, failReload) ==
    \/ /\ ~HasRow(table, e[1])
       /\ \/ \E a \in PreloadArgs : CreateWithPreload(r, e, a, FALSE, failReload)
          \/ CreateWithAllAssociations(r, e, FALSE, failReload)
    \/ \E a \in PreloadArgs : UpdateWithPreload(r, e, a, FALSE, failReload)

\* the step is a call on r with entity e whose write fails
WriteFails(r, e) ==
    \E failReload \in BOOLEAN :
        \/ \E a \in PreloadArgs, fail \in BOOLEAN :
              /\ fail \/ HasRow(table, e[1])
              /\ CreateWithPreload(r, e, a, fail, failReload)
        \/ \E fail \in BOOLEAN :
              /\ fail \/ HasRow(table, e[1])
              /\ CreateWithAllAssociations(r, e, fail, failReload)
        \/ \E a \in PreloadArgs : UpdateWithPreload(r, e, a, TRUE, failReload)

\* no row with the key of e satisfies the conditions the handle of r carries
NothingToReload(r, e) ==
    \E c \in repos[r].db.wheres : ColumnValue(e, c.col) # c.val

\* C28: for CreateWithPreload, CreateWithAllAssociations and
\* UpdateWithPreload, when the write succeeds currentResult is non-nil
\* afterwards and nothing else of the instance changes, lastError included;
\* when then the primary key cannot be resolved (T has none) or the reload
\* fails (the engine fails, or the handle's conditions exclude the row),
\* currentResult is the caller's entity as it was passed.  When the write
\* fails lastError is set to its error and currentResult is unchanged.
C28_ReloadFailureIsSilent ==
    [][\A r \in 1..Len(repos), e \in ReloadEntities :
          /\ \A failReload \in BOOLEAN :
                WriteSucceeds(r, e, failReload) =>
                    /\ repos'[r].currentResult # NilPtr
                    /\ repos' = [repos EXCEPT ![r].currentResult = repos'[r].currentResult]
                    /\ HasRow(table', e[1])
                    /\ (T = "Audit" \/ failReload \/ NothingToReload(r, e)) =>
                          repos'[r].currentResult = PtrTo(e)
          /\ WriteFails(r, e) =>
                /\ repos'[r].lastError # NoErr
                /\ repos' = [repos EXCEPT ![r].lastError = repos'[r].lastError]
                /\ table' = table]_vars

\* CreateWithPreload of row 4 without associations has stored the row, and
\* the instance holds the caller's entity, its Profile still set, with a nil
\* lastError: the reload, which would have returned the row without its
\* Profile, failed
C28_Witness ==
    /\ last.op = "CreateWithPreload"
    /\ last.args = <<Row4, <<>> >>
    /\ dto = "User"
    /\ HasRow(table, 4)
    /\ repos[last.recv].currentResult = PtrTo(Row4)
    /\ repos[last.recv].lastError = NoErr

-----------------------------------------------------------------------------
(* Properties of the chain runs (SpecChain).                               *)

\* the rows of the table that satisfy every condition of conds
RowsSatisfying(conds) ==
    LET hit(row) == \A c \in conds : ColumnValue(row, c.col) = c.val
    IN SelectSeq(table, hit)

ChainOps == {"FindOne", "One", "First", "Get"}

\* C27: terminal calls never reset the accumulated query state of an
\* instance.  Every terminal call keeps the conditions the instance had;
\* a limit of 1, once One() has set it, stays and a later Get() returns at
\* most one row and First() leaves it in place; FindOne(f2) on an instance
\* that already carries the conditions of FindOne(f1) adds f2 to them and
\* is evaluated over the rows that satisfy both: it stores the first such
\* row, or record-not-found when there is none.
C27_TerminalCallsKeepQueryState ==
    [][\A r \in 1..Len(repos) :
          /\ (last'.op \in ChainOps /\ last'.recv = r /\ calls' = calls + 1) =>
                /\ repos[r].db.wheres \subseteq repos'[r].db.wheres
                /\ repos[r].db.limit = 1 => repos'[r].db.limit = 1
                /\ last'.op = "One" => repos'[r].db.limit = 1
                /\ last'.op \in {"First", "Get"} => repos'[r].db = repos[r].db
                /\ (last'.op = "Get" /\ repos[r].db.limit = 1 /\ last'.err = NoErr) =>
                      Len(last'.list[1].elems) <= 1
          /\ \A f2 \in ChainFilters :
                FindOne(r, f2, FALSE) =>
                   LET both == repos[r].db.wheres \cup f2
                   IN /\ repos'[r].db.wheres = both
                      /\ IF RowsSatisfying(both) = <<>>
                         THEN /\ repos'[r].lastError = ErrRecordNotFound
                              /\ repos'[r].currentResult = repos[r].currentResult
                         ELSE /\ repos'[r].currentResult # NilPtr
                              /\ repos'[r].currentResult[1][1] = RowsSatisfying(both)[1][1]
                              /\ repos'[r].lastError = repos[r].lastError]_vars

\* FindOne(name = "Bob") has just reported record-not-found on the instance
\* that holds the row found by FindOne(id = 1): each filter alone matches a
\* row, the two together match none
C27_Witness ==
    /\ last.op = "FindOne"
    /\ repos[last.recv].db.wheres = {Cond("id", 1), Cond("name", "Bob")}
    /\ repos[last.recv].lastError = ErrRecordNotFound
    /\ repos[last.recv].currentResult # NilPtr
    /\ repos[last.recv].currentResult[1][1] = 1
    /\ RowsSatisfying({Cond("name", "Bob")}) # <<>>

-----------------------------------------------------------------------------
(* Properties of the primary-key runs (SpecKeys).                          *)

RECURSIVE Visit(_, _)
\* the fields of an entity in the order of a depth-first walk: each field,
\* then, when it is an embedded struct (held by value or through a
\* pointer), that struct's fields, before the next sibling
VisitField(f, fv) ==
    <<[Name |-> f.Name, gorm |-> f.gorm, value |-> AnyOf(fv)]>> \o
    (IF ~f.Anonymous THEN <<>>
     ELSE IF KeyKind(f.Type) = "struct" THEN Visit(fv, f.Type)
     ELSE IF KeyKind(f.Type) = "ptr" /\ fv # NilPtr THEN Visit(fv[1], "Base")
     ELSE <<>>)

RECURSIVE VisitFrom(_, _, _)
VisitFrom(val, typ, i) ==
    IF i > Len(KeyFields(typ)) THEN <<>>
    ELSE VisitField(KeyFields(typ)[i], val[i]) \o VisitFrom(val, typ, i + 1)

Visit(val, typ) == VisitFrom(val, typ, 1)

\* the fields of the walk named "id" in any case or tagged primaryKey
KeysVisited(val, typ) == SelectSeq(Visit(val, typ), IsKeyField)

\* C16: GetPrimaryKey returns ("id", GetID()) for an entity implementing
\* GetID(), whatever its fields; otherwise the name and value of the first
\* field, in a depth-first walk in declaration order through embedded
\* structs, that is named "id" in any case or tagged primaryKey; and an
\* error exactly when the walk meets no such field.
C16_PrimaryKeyResolution ==
    last.op = "GetPrimaryKey" =>
        IF dto \in KeyProviders
        THEN last.pk = KeyResult(N_id, AnyOf(GetID(last.ent[1])), NoErr)
        ELSE IF KeysVisited(last.ent[1], dto) = <<>>
        THEN last.pk.err # NoErr /\ last.pk.err # ErrPanicInterface
        ELSE last.pk = KeyResult(KeysVisited(last.ent[1], dto)[1].Name,
                                 KeysVisited(last.ent[1], dto)[1].value, NoErr)

-----------------------------------------------------------------------------
(* Properties of the scope runs (SpecScope).                               *)

\* the rows after fn's creates, applied in order to the rows before the call
RowsAfter(fn) == RunFn([rec |-> NewRepo(NewDB), rows |-> table], fn.creates).rows

\* C17: Transaction(fn) hands fn a repository with the transactional
\* handle and no projection, result, slice or error, whatever the
\* receiver's slots hold; fn's writes are committed if fn returns nil and
\* rolled back otherwise; what fn returns is what Transaction returns; and
\* no slot of the receiver (or of any other repository) changes.
C17_TransactionFreshAndAtomic ==
    [][(last'.op = "Transaction" /\ calls' = calls + 1) =>
          /\ last'.given = PtrTo(NewRepo(DBBegin(repos[last'.recv].db)))
          /\ \A q \in 1..Len(repos) : repos'[q] = repos[q]
          /\ last'.fn.ret = "nil" => (last'.err = NoErr /\ table' = RowsAfter(last'.fn))
          /\ last'.fn.ret = "own" => (last'.err = ErrAborted /\ table' = table)
          /\ last'.fn.ret = "propagate" =>
                /\ last'.err = repos'[last'.ret].lastError
                /\ table' = (IF last'.err = NoErr THEN RowsAfter(last'.fn) ELSE table)]_vars

\* a transaction on a receiver holding a result was rolled back after fn
\* had created a row through the repository it was handed
C17_Witness ==
    /\ last.op = "Transaction"
    /\ last.err # NoErr
    /\ repos[last.recv].currentResult # NilPtr
    /\ repos[last.ret].currentResult = PtrTo(Row3)
    /\ ~HasRow(table, 3)

\* C29: the commit decision of Transaction(fn) depends only on what fn
\* returns, not on the error slot of the repository fn was handed.  When
\* fn returns nil, Transaction returns nil and every row fn created is in
\* the table afterwards, also when an operation inside fn failed and left
\* its error in that repository's lastError; when fn returns an error of
\* its own, the table is as before although that lastError is nil.
C29_CommitFollowsReturnValueOnly ==
    last.op = "Transaction" =>
        /\ last.fn.ret = "nil" =>
              /\ last.err = NoErr
              /\ \A i \in 1..Len(last.fn.creates) : HasRow(table, last.fn.creates[i][1])
              /\ repos[last.ret].currentResult # NilPtr =>
                    repos[last.ret].currentResult[1] \in {table[j] : j \in 1..Len(table)}
        /\ (last.fn.ret = "own" /\ repos[last.ret].lastError = NoErr) => last.err # NoErr

\* fn created row 3, failed to create row 1 again, and returned nil:
\* Transaction returned nil and row 3 is in the table, while the handed
\* repository holds the duplicate-key error
C29_Witness ==
    /\ last.op = "Transaction"
    /\ last.fn = TxFn(<<Row3, Row1>>, "nil")
    /\ last.err = NoErr
    /\ repos[last.ret].lastError = ErrDuplicate
    /\ repos[last.ret].currentResult = PtrTo(Row3)
    /\ HasRow(table, 3)

\* the repositories obtained through WithDB, Transaction or a
\* context-scoped method
ScopeOps == {"WithDB", "Transaction", "CreateWithContext", "FindByIDWithContext"}
IsScoped(q) == repos[q].db.ctx \/ repos[q].db.conn # "db"

\* C18: WithDB, Transaction, CreateWithContext and FindByIDWithContext
\* return a new object and leave every existing repository, their receiver
\* included, as it was; and in every interleaving a call on one repository
\* changes the query state, projection, result, slice and error of no
\* other repository.
C18_ScopedStatesIndependent ==
    [][calls' = calls + 1 =>
          /\ \A q \in 1..Len(repos) :
                (q # last'.recv \/ last'.op \in ScopeOps) => repos'[q] = repos[q]
          /\ last'.op \in ScopeOps =>
                (Len(repos') = Len(repos) + 1 /\ last'.ret = Len(repos'))]_vars

\* two repositories obtained independently from the parent, a call on one
\* of which changed it and neither the other nor the parent
C18_Witness ==
    \E a, b \in Repos :
        /\ a # b /\ a # 1 /\ b # 1
        /\ IsScoped(a) /\ IsScoped(b)
        /\ last.op = "Where" /\ last.recv = a
        /\ Cond("id", 2) \in repos[a].db.wheres
        /\ repos[b].db.wheres = {}
        /\ repos[1] = NewRepo(NewDB)

-----------------------------------------------------------------------------
(* Properties of the naming run (SpecNaming).                              *)

HasProjectionTag == fld.Tag.projection # <<>>
HasColumnClause == ColumnPart(Split(fld.Tag.gorm, ";")) # 0
ColumnClauseValue ==
    TrimPrefix(Split(fld.Tag.gorm, ";")[ColumnPart(Split(fld.Tag.gorm, ";"))], ColumnPrefix)
HasJsonName == fld.Tag.json # <<>> /\ fld.Tag.json # DashTag

\* C8: getColumnNameFromDTO chooses by strict priority, first match wins:
\* (1) a non-empty projection tag; (2) the value of a column: clause of the
\* gorm tag; (3) the first comma-delimited segment of a json tag that is
\* present and not "-"; (4) the snake-case form of the field name.
C8_ColumnNamePriority ==
    last.op = "getColumnNameFromDTO" =>
        /\ HasProjectionTag => last.names[1] = fld.Tag.projection
        /\ (~HasProjectionTag /\ HasColumnClause) => last.names[1] = ColumnClauseValue
        /\ (~HasProjectionTag /\ ~HasColumnClause /\ HasJsonName) =>
              last.names[1] = Split(fld.Tag.json, ",")[1]
        /\ (~HasProjectionTag /\ ~HasColumnClause /\ ~HasJsonName) =>
              last.names[1] = toSnakeCase(fld.Name)

\* a field with a column: clause and a json name, and no projection tag,
\* was named by its column: clause
C8_Witness ==
    /\ last.op = "getColumnNameFromDTO"
    /\ ~HasProjectionTag
    /\ HasColumnClause
    /\ HasJsonName
    /\ last.names[1] = ColumnClauseValue
    /\ last.names[1] # Split(fld.Tag.json, ",")[1]

\* the string the last toSnakeCase call converted
SnakeInput == IF last.args = <<>> THEN fld.Name ELSE last.args[1]

\* the number of upper-case letters of s at positions 2..k
UppersUpTo(s, k) == Cardinality({m \in 2..k : IsUpperChar(s[m])})

\* C22: toSnakeCase puts one underscore before every upper-case ASCII
\* letter that is not the first character and lower-cases every character,
\* letter by letter: the k-th character of the input, lower-cased, stands
\* at position k plus the number of upper-case letters at positions 2..k,
\* preceded by an underscore when it is one of those; nothing else is in
\* the result, so it starts with an underscore only if the input does.
\* UserID gives user_i_d and Name gives name.
C22_SnakeCaseLetterByLetter ==
    last.op = "toSnakeCase" =>
        LET s == SnakeInput
            out == last.names[1]
        IN /\ Len(out) = Len(s) + UppersUpTo(s, Len(s))
           /\ \A k \in 1..Len(s) :
                 /\ out[k + UppersUpTo(s, k)] = ToLowerChar(s[k])
                 /\ (k > 1 /\ IsUpperChar(s[k])) => out[k + UppersUpTo(s, k) - 1] = "_"
           /\ (out # <<>> /\ out[1] = "_") => s[1] = "_"
           /\ s = N_UserID => out = <<"u","s","e","r","_","i","_","d">>
           /\ s = N_Name => out = <<"n","a","m","e">>

\* UserID was converted, its two adjacent upper-case letters each getting
\* an underscore
C22_Witness ==
    /\ last.op = "toSnakeCase"
    /\ SnakeInput = N_UserID
    /\ last.names[1] = <<"u","s","e","r","_","i","_","d">>

\* no tag of the field supplies a non-empty name
NoTagSuppliesName ==
    /\ ~HasProjectionTag
    /\ (HasColumnClause => ColumnClauseValue = <<>>)
    /\ (HasJsonName => Split(fld.Tag.json, ",")[1] = <<>>)

\* C23: for a DTO field with a non-empty name getColumnNameFromDTO returns
\* a non-empty string, and the snake-case form of the field name whenever
\* no tag supplies a name, also when the json tag's first segment or the
\* gorm tag's column: clause is empty.
C23_ColumnNameNeverEmpty ==
    (last.op = "getColumnNameFromDTO" /\ fld.Name # <<>>) =>
        /\ last.names[1] # <<>>
        /\ NoTagSuppliesName => last.names[1] = toSnakeCase(fld.Name)

====
